---- MODULE Spec2Model ----
(***************************************************************************)
(* State-machine model of the Power device plugin (pkg/plugin/plugin.go):  *)
(* configuration loading, the device filter pipeline, the two discovery    *)
(* strategies with the time-windowed cache, and the usage-tracking         *)
(* allocator.                                                              *)
(*                                                                         *)
(* Strings are sequences of tokens.  The token "/dev/" stands for the      *)
(* five characters of the device-directory prefix, so HasPrefix and        *)
(* TrimPrefix are computed on the first token.  Durations and instants are *)
(* whole seconds; the zero instant is 0.                                   *)
(***************************************************************************)
EXTENDS Integers, Sequences, FiniteSets, TLC

\* ------------------------------------------------------------------ bounds
MaxBatch == 2      \* container requests in one Allocate call
MaxTicks == 2      \* clock advances in one behaviour
MaxHostChanges == 1 \* changes of the host's block devices in one behaviour
MaxPatterns == 2   \* entries of an include or exclude list
MaxPermLen == 3    \* letters of a permission string
MaxStreams == 2    \* ListAndWatch streams opened
MaxHealth == 1     \* calls of unhealthy

\* ------------------------------------------------------- program constants
DefaultIntervalMinutes == 60   \* interval := 60 * time.Minute
DefaultUpperLimit == 1         \* upperLimit = 1 // default fallback

\* ------------------------------------------------------------------ strings
DevPrefix == "/dev/"

HasDevPrefix(s) == Len(s) > 0 /\ s[1] = DevPrefix

\* strings.TrimPrefix(dev, "/dev/")
TrimDevPrefix(s) == IF HasDevPrefix(s) THEN Tail(s) ELSE s

\* devPath := dev; if !strings.HasPrefix(dev, "/dev/") { devPath = "/dev/" + dev }
DevPathOf(dev) == IF HasDevPrefix(dev) THEN dev ELSE <<DevPrefix>> \o dev

\* strings.TrimSpace on a token string: blanks are the token " "
RECURSIVE TrimLeft(_)
TrimLeft(s) == IF Len(s) > 0 /\ s[1] = " " THEN TrimLeft(Tail(s)) ELSE s

RECURSIVE TrimRight(_)
TrimRight(s) ==
    IF Len(s) > 0 /\ s[Len(s)] = " " THEN TrimRight(SubSeq(s, 1, Len(s) - 1)) ELSE s

\* Variant: the entry is used as written, blanks included.
TrimSpace_Keep(s) == s

TrimSpace(s) == TrimRight(TrimLeft(s))

SeqRange(s) == {s[i] : i \in 1..Len(s)}

\* The device paths of the modelled host.
SdA == <<DevPrefix, "sda">>
SdB == <<DevPrefix, "sdb">>
NxGzipPath == <<DevPrefix, "crypto", "/", "nx-gzip">>

\* Directory order of the host's paths (filepath.Glob returns sorted names).
HostPathOrder == <<NxGzipPath, SdA, SdB>>
HostPaths == SeqRange(HostPathOrder)

\* Keys the usage ledger can hold.
LedgerKeys == HostPaths

\* ------------------------------------------------------------ configuration
\* A Go slice whose nil-ness the code tests.
NilSlice == [isnil |-> TRUE, elems |-> <<>>]
Slice(s) == [isnil |-> FALSE, elems |-> s]

\* api.DevicePluginConfig{}
EmptyConfig ==
    [NxGzip |-> FALSE, Permissions |-> <<>>, IncludeDevices |-> NilSlice,
     ExcludeDevices |-> NilSlice, DiscoveryStrategy |-> "", ScanInterval |-> <<>>,
     UpperLimitPerDevice |-> 0]

NilConfig == [isnil |-> TRUE, v |-> EmptyConfig]
ConfigPtr(c) == [isnil |-> FALSE, v |-> c]

\* LoadDevicePluginConfig: the outcome for each condition of the file at
\* configPath.  file.kind is "missing", "statfail", "dir", "unreadable",
\* "malformed" or "ok"; file.cfg is the decoded document of an "ok" file.
LoadDevicePluginConfig(file) ==
    CASE file.kind = "missing"    -> [config |-> ConfigPtr(EmptyConfig), err |-> "notexist"]
      [] file.kind = "statfail"   -> [config |-> NilConfig, err |-> "stat"]
      [] file.kind = "dir"        -> [config |-> ConfigPtr(EmptyConfig), err |-> "none"]
      [] file.kind = "unreadable" -> [config |-> NilConfig, err |-> "read"]
      [] file.kind = "malformed"  -> [config |-> NilConfig, err |-> "unmarshal"]
      [] OTHER                    -> [config |-> ConfigPtr(file.cfg), err |-> "none"]

\* strings.ToLower, token by token
LowerOf(ch) ==
    CASE ch = "R" -> "r" [] ch = "W" -> "w" [] ch = "M" -> "m"
      [] ch = "X" -> "x" [] OTHER -> ch

ToLower(s) == [i \in 1..Len(s) |-> LowerOf(s[i])]

ValidPermissions ==
    {<<"r">>, <<"w">>, <<"m">>, <<"r", "w">>, <<"r", "m">>, <<"w", "m">>,
     <<"r", "w", "m">>}

\* Variant: the configured string is compared as written.
GetValidatedPermission_CaseSensitive(config) ==
    IF config.isnil THEN <<"r", "w", "m">>
    ELSE IF config.v.Permissions \in ValidPermissions THEN config.v.Permissions
    ELSE <<"r", "w">>

GetValidatedPermission(config) ==
    IF config.isnil THEN <<"r", "w", "m">>
    ELSE LET perm == ToLower(config.v.Permissions)
         IN  IF perm \in ValidPermissions THEN perm ELSE <<"r", "w">>

\* Variant: the configured value is used as it is, without the fallback.
EffectiveUpperLimit_Raw(configured) == configured

\* Variant: only a negative value falls back (upperLimit < 0).
EffectiveUpperLimit_ZeroKept(configured) ==
    IF configured < 0 THEN DefaultUpperLimit ELSE configured

\* upperLimit := config.UpperLimitPerDevice; if upperLimit <= 0 { upperLimit = 1 }
EffectiveUpperLimit(configured) ==
    IF configured <= 0 THEN DefaultUpperLimit ELSE configured

\* Decimal numerals the model's duration strings use.
NumeralValue(tok) ==
    CASE tok = "0" -> 0 [] tok = "1" -> 1 [] tok = "2" -> 2 [] tok = "30" -> 30
      [] tok = "60" -> 60 [] OTHER -> -1

\* time.ParseDuration on the forms the model uses: a numeral token followed by
\* a unit token "s", "m" or "h"; everything else is a parse error.
ParseDuration(s) ==
    IF Len(s) = 2 /\ NumeralValue(s[1]) >= 0 /\ s[2] \in {"s", "m", "h"}
    THEN [ok |-> TRUE,
          d |-> NumeralValue(s[1])
                  * (CASE s[2] = "s" -> 1 [] s[2] = "m" -> 60 [] OTHER -> 3600)]
    ELSE [ok |-> FALSE, d |-> 0]

\* Variant: a scan-interval that does not parse leaves a window of zero.
ScanIntervalOf_ParseErrorZero(config) ==
    LET fallback == DefaultIntervalMinutes * 60
    IN  IF ~config.isnil /\ config.v.ScanInterval # <<>>
        THEN ParseDuration(config.v.ScanInterval).d
        ELSE fallback

\* interval := 60 * time.Minute, replaced by the parsed scan-interval when the
\* configuration has one that parses.
ScanIntervalOf(config) ==
    LET fallback == DefaultIntervalMinutes * 60
    IN  IF ~config.isnil /\ config.v.ScanInterval # <<>>
        THEN LET p == ParseDuration(config.v.ScanInterval)
             IN  IF p.ok THEN p.d ELSE fallback
        ELSE fallback

\* --------------------------------------------------------- glob patterns
\* Pattern tokens: "*" and "?" are the wildcards, "[" is a bracket that is
\* never closed (a malformed pattern), every other token is a literal.
IsSeparatorToken(tok) == tok \in {DevPrefix, "/"}

IsMalformed(pattern) == \E i \in 1..Len(pattern) : pattern[i] = "["

RECURSIVE GlobMatch(_, _)
GlobMatch(pattern, name) ==
    IF pattern = <<>> THEN name = <<>>
    ELSE IF pattern[1] = "*"
    THEN \E k \in 0..Len(name) :
            /\ \A j \in 1..k : ~IsSeparatorToken(name[j])
            /\ GlobMatch(Tail(pattern), SubSeq(name, k + 1, Len(name)))
    ELSE IF pattern[1] = "?"
    THEN /\ Len(name) > 0
         /\ ~IsSeparatorToken(name[1])
         /\ GlobMatch(Tail(pattern), Tail(name))
    ELSE /\ Len(name) > 0
         /\ name[1] = pattern[1]
         /\ GlobMatch(Tail(pattern), Tail(name))

\* filepath.Match(pattern, name): (matched, err); err is ErrBadPattern.
Match(pattern, name) ==
    IF IsMalformed(pattern) THEN [matched |-> FALSE, err |-> TRUE]
    ELSE [matched |-> GlobMatch(pattern, name), err |-> FALSE]

\* Variant: a malformed pattern ends the check (return false in place of continue).
RECURSIVE MatchesAny_StopAtMalformed(_, _)
MatchesAny_StopAtMalformed(dev, patterns) ==
    IF patterns = <<>> THEN FALSE
    ELSE LET m == Match(patterns[1], dev)
         IN  IF m.err THEN FALSE
             ELSE IF m.matched THEN TRUE
             ELSE MatchesAny_StopAtMalformed(dev, Tail(patterns))

RECURSIVE MatchesAny(_, _)
MatchesAny(dev, patterns) ==
    IF patterns = <<>> THEN FALSE
    ELSE LET m == Match(patterns[1], dev)
         IN  IF m.err THEN MatchesAny(dev, Tail(patterns))
             ELSE IF m.matched THEN TRUE
             ELSE MatchesAny(dev, Tail(patterns))

\* ------------------------------------------------------- filter pipeline
ApplyExcludeFilters(devices, excludes) ==
    IF excludes.isnil THEN devices
    ELSE LET Kept(dev) == ~MatchesAny(dev, excludes.elems)
         IN  SelectSeq(devices, Kept)

\* The files of a host: the paths a directory listing shows (what filepath.Glob
\* walks) and the paths os.Stat succeeds on (a dangling link is listed, and
\* cannot be stat-ed).
HostOf(listed, statable) == [listed |-> listed, statable |-> statable]
RealHost == HostOf(HostPaths, HostPaths)

\* realDeviceScanner.FindDevices = filepath.Glob over the files of the host
FindDevices(pattern, files) ==
    IF IsMalformed(pattern) THEN [matches |-> <<>>, err |-> TRUE]
    ELSE LET Hit(path) == path \in files.listed /\ GlobMatch(pattern, path)
         IN  [matches |-> SelectSeq(HostPathOrder, Hit), err |-> FALSE]

\* Variant: every path found is taken to exist.
StatDevice_Always(path, files) == TRUE

\* realDeviceScanner.StatDevice = os.Stat: TRUE when the stat succeeds
StatDevice(path, files) == path \in files.statable

RECURSIVE IncludeMatches(_, _)
IncludeMatches(cleaned, files) ==
    IF cleaned = <<>> THEN <<>>
    ELSE LET found == FindDevices(cleaned[1], files)
             Exists(dev) == StatDevice(dev, files)
             here == IF found.err THEN <<>>
                     ELSE LET kept == SelectSeq(found.matches, Exists)
                          IN  [i \in 1..Len(kept) |-> TrimDevPrefix(kept[i])]
         IN  here \o IncludeMatches(Tail(cleaned), files)

ApplyIncludeFilters(devices, includes, files) ==
    IF includes.isnil THEN devices
    ELSE LET trimmed == [i \in 1..Len(includes.elems) |-> TrimSpace(includes.elems[i])]
             NonBlank(p) == p # <<>>
             cleaned == SelectSeq(trimmed, NonBlank)
         IN  IF cleaned = <<>>
             THEN [i \in 1..Len(devices) |-> TrimDevPrefix(devices[i])]
             ELSE IncludeMatches(cleaned, files)

\* Variant: the offload device is appended to the filtered list.
ScanRoot_AppendAfterFilters(loaded, block, files, nxGzipEnabled) ==
    LET config == IF loaded.config.isnil THEN EmptyConfig ELSE loaded.config.v
    IN  IF block.err THEN [devices |-> <<>>, err |-> TRUE]
        ELSE LET filtered == ApplyExcludeFilters(block.devices, config.ExcludeDevices)
                 final == ApplyIncludeFilters(filtered, config.IncludeDevices, files)
             IN  [devices |-> IF nxGzipEnabled THEN Append(final, NxGzipPath) ELSE final,
                  err |-> FALSE]

\* ScanRootForDevicesWithDeps with the real scanner: loaded is the outcome of
\* scanner.LoadConfig, block the outcome of scanner.GetBlockDevices.
ScanRootForDevicesWithDeps(loaded, block, files, nxGzipEnabled) ==
    LET config == IF loaded.config.isnil THEN EmptyConfig ELSE loaded.config.v
    IN  IF block.err THEN [devices |-> <<>>, err |-> TRUE]
        ELSE LET devices == IF nxGzipEnabled
                            THEN Append(block.devices, NxGzipPath)
                            ELSE block.devices
                 filtered == ApplyExcludeFilters(devices, config.ExcludeDevices)
             IN  [devices |-> ApplyIncludeFilters(filtered, config.IncludeDevices, files),
                  err |-> FALSE]

\* ------------------------------------------------------------------- state
VARIABLES
    cfgFile,        \* environment: the file at configPath
    blockDevs,      \* environment: what GetBlockDevices enumerates
    hostFiles,      \* environment: the files of the host (listed, statable)
    now,            \* environment: the wall clock, in seconds
    ticks,          \* clock advances made so far
    hostChanges,    \* block-device changes made so far
    Config,         \* PowerPlugin.Config
    devs,           \* PowerPlugin.devs
    server,         \* PowerPlugin.server: "nil" or "running"
    stopClosed,     \* close(p.stop) has run
    sockFile,       \* the file at p.socket exists
    Cache,          \* PowerPlugin.Cache: Devices, LastScanTime
    DeviceUsage,    \* PowerPlugin.DeviceUsage
    crashed,        \* the process died of a panic
    alloc,          \* the Allocate call of each caller
    disc,           \* the last direct GetDiscoveredDevices call
    lastScan,       \* history: the last invocation of the scanner
    grantsReturned, \* history: container grants returned in successful responses
    ret,            \* the last direct call of a package function: arguments, result
    stream,         \* the ListAndWatch call of each stream: position, messages sent
    monitor,        \* the MonitorSocketHealth goroutine each stream spawned
    restartCh,      \* signals buffered in p.restart (capacity 1)
    healthCh,       \* senders blocked on p.health (unbuffered), and senders so far
    kubeletSock,    \* the kubelet's registration socket exists
    serveRet,       \* history: what the last Serve call returned
    cacheMutex,     \* p.Cache.Mutex: "free" or the caller that holds it
    getting         \* the GetDiscoveredDevices call of each concurrent caller

envVars == <<cfgFile, blockDevs, hostFiles, now, ticks, hostChanges>>
pluginVars == <<Config, devs, server, stopClosed, sockFile, Cache, DeviceUsage, crashed>>
vars == <<cfgFile, blockDevs, hostFiles, now, ticks, hostChanges,
          Config, devs, server, stopClosed, sockFile, Cache, DeviceUsage, crashed,
          alloc, disc, lastScan, grantsReturned, ret,
          stream, monitor, restartCh, healthCh, kubeletSock, serveRet,
          cacheMutex, getting>>
lockVars == <<cacheMutex, getting>>
watchVars == <<stream, monitor, restartCh, healthCh, kubeletSock>>

Callers == {"k1", "k2"}

\* The instant the daemon is started at (any instant after the zero instant).
StartTime == 60

\* ---------------------------------------------------------------- discovery
\* Variant: an empty strategy string selects the time strategy.
StrategyOf_EmptyIsTime(config) ==
    IF config.isnil THEN "default"
    ELSE IF config.v.DiscoveryStrategy = "" THEN "time"
    ELSE config.v.DiscoveryStrategy

\* strategy := "default"; if p.Config != nil && p.Config.DiscoveryStrategy != ""
StrategyOf(config) ==
    IF ~config.isnil /\ config.v.DiscoveryStrategy # ""
    THEN config.v.DiscoveryStrategy ELSE "default"

\* nxGzip := false; if p.Config != nil { nxGzip = p.Config.NxGzip }
NxGzipOf(config) == ~config.isnil /\ config.v.NxGzip

\* var timeSinceLastScan time.Duration; set only when LastScanTime is not zero
TimeSinceLastScan(cache, tnow) ==
    IF cache.LastScanTime # 0 THEN tnow - cache.LastScanTime ELSE 0

\* Variant: the window includes its end (timeSinceLastScan <= interval).
UseCached_Inclusive(cache, tnow, interval) ==
    Len(cache.Devices) > 0 /\ TimeSinceLastScan(cache, tnow) <= interval

\* len(p.Cache.Devices) > 0 && timeSinceLastScan < interval
UseCached(cache, tnow, interval) ==
    Len(cache.Devices) > 0 /\ TimeSinceLastScan(cache, tnow) < interval

\* Variant: a failed scan is always reported, the cache is not consulted.
ScanFailureResult_NoFallback(cache) ==
    [devices |-> <<>>, isnil |-> TRUE, err |-> "scan"]

\* Variant: a failed scan empties the cache behind the list it falls back to.
ScanFailureResult_ClearsCache(cache) ==
    [devices |-> cache.Devices, isnil |-> Len(cache.Devices) = 0,
     err |-> IF Len(cache.Devices) > 0 THEN "none" ELSE "scan",
     cache |-> [Devices |-> <<>>, LastScanTime |-> 0]]

\* the branch taken when the fresh scan of the time strategy fails
ScanFailureResult(cache) ==
    IF Len(cache.Devices) > 0
    THEN [devices |-> cache.Devices, isnil |-> FALSE, err |-> "none"]
    ELSE [devices |-> <<>>, isnil |-> TRUE, err |-> "scan"]

\* Variant: a successful scan stores the list and leaves the time as it was.
CacheAfterScan_DevicesOnly(cache, devices, tnow) ==
    [Devices |-> devices, LastScanTime |-> cache.LastScanTime]

\* the writes after a successful scan of the time strategy
CacheAfterScan(cache, devices, tnow) == [Devices |-> devices, LastScanTime |-> tnow]

\* What GetBlockDevices answers: the host's block devices, or an error.
GetBlockDevices(fails) ==
    IF fails THEN [devices |-> <<>>, err |-> TRUE]
    ELSE [devices |-> blockDevs, err |-> FALSE]

\* GetDiscoveredDevices with the real scanner: what the call returns, the
\* cache it leaves, and whether it invoked the scanner (and how that ended).
\* `fails` tells whether GetBlockDevices would fail at this call.
GetDiscoveredDevices(config, cache, tnow, fails) ==
    LET scan == ScanRootForDevicesWithDeps(LoadDevicePluginConfig(cfgFile),
                    GetBlockDevices(fails), hostFiles, NxGzipOf(config))
    IN  IF StrategyOf(config) = "time"
        THEN IF UseCached(cache, tnow, ScanIntervalOf(config))
             THEN [devices |-> cache.Devices, isnil |-> FALSE, err |-> "none",
                   cache |-> cache, scanned |-> FALSE, scanOk |-> FALSE]
             ELSE IF scan.err
             THEN ScanFailureResult(cache)
                    @@ [cache |-> cache, scanned |-> TRUE, scanOk |-> FALSE]
             ELSE [devices |-> scan.devices, isnil |-> FALSE, err |-> "none",
                   cache |-> CacheAfterScan(cache, scan.devices, tnow),
                   scanned |-> TRUE, scanOk |-> TRUE]
        ELSE IF scan.err
             THEN [devices |-> <<>>, isnil |-> TRUE, err |-> "scan",
                   cache |-> cache, scanned |-> TRUE, scanOk |-> FALSE]
             ELSE [devices |-> scan.devices, isnil |-> FALSE, err |-> "none",
                   cache |-> cache, scanned |-> TRUE, scanOk |-> TRUE]

\* history of the scanner's invocations under the time strategy, kept by
\* every caller of discovery
ScanRecord(d, config, tnow) ==
    IF d.scanned /\ StrategyOf(config) = "time"
    THEN [done |-> TRUE, ok |-> d.scanOk, t |-> tnow,
          devices |-> IF d.scanOk THEN d.devices ELSE <<>>]
    ELSE lastScan

\* --------------------------------------------------------------- allocation
\* DevicesIDs of a container request: ids are the decimal indices ListAndWatch
\* advertises.
DeviceIDSets == {<<"0">>, <<"1">>}

\* strconv.Itoa on the indices the model reaches
Itoa(i) ==
    CASE i = 0 -> "0" [] i = 1 -> "1" [] i = 2 -> "2" [] i = 3 -> "3"
      [] OTHER -> "4"

RECURSIVE PickByIds(_, _, _)
PickByIds(devices, ids, k) ==
    IF k > Len(devices) THEN <<>>
    ELSE (IF Itoa(k - 1) \in SeqRange(ids) THEN <<devices[k]>> ELSE <<>>)
             \o PickByIds(devices, ids, k + 1)

\* Variant: only the devices the request names are visited.
ScannedDevices_ByIds(devices, ids) == PickByIds(devices, ids, 1)

\* for _, dev := range devices: the devices the scan of one container request
\* visits (the request's DevicesIDs are not read)
ScannedDevices(devices, ids) == devices

\* Variant: count <= upperLimit.
BelowLimit_Inclusive(count, upperLimit) == count <= upperLimit

\* if count < upperLimit
BelowLimit(count, upperLimit) == count < upperLimit

\* Variant: the host path is the device as listed, not devPath.
DeviceSpec_RawPath(dev, devPath, perm) ==
    [HostPath |-> dev, ContainerPath |-> devPath, Permissions |-> perm]

\* &pluginapi.DeviceSpec{HostPath: devPath, ContainerPath: devPath, Permissions: ...}
DeviceSpec(dev, devPath, perm) ==
    [HostPath |-> devPath, ContainerPath |-> devPath, Permissions |-> perm]

\* The locked loop over the devices for one container request, from position k
\* with `skipped` devices already found at the limit.
RECURSIVE ScanForDevice(_, _, _, _, _, _)
ScanForDevice(usage, devices, k, upperLimit, perm, skipped) ==
    IF k > Len(devices)
    THEN [usage |-> usage, ds |-> <<>>, allocated |-> 0, skippedDueToLimit |-> skipped]
    ELSE LET dev == devices[k]
             devPath == DevPathOf(dev)
         IN  IF BelowLimit(usage[devPath], upperLimit)
             THEN [usage |-> [usage EXCEPT ![devPath] = @ + 1],
                   ds |-> <<DeviceSpec(dev, devPath, perm)>>,
                   allocated |-> 1, skippedDueToLimit |-> skipped]
             ELSE ScanForDevice(usage, devices, k + 1, upperLimit, perm, skipped + 1)

\* Variant: an empty device list counts as too few devices.
FailureKind_EmptyIsNotEnough(skippedDueToLimit, totalDevices) ==
    IF skippedDueToLimit = totalDevices /\ totalDevices > 0
    THEN "upperlimit" ELSE "notenough"

\* Variant: the comparison is skippedDueToLimit > totalDevices.
FailureKind_Greater(skippedDueToLimit, totalDevices) ==
    IF skippedDueToLimit > totalDevices THEN "upperlimit" ELSE "notenough"

\* if skippedDueToLimit == totalDevices { "upper limit per device reached ..." }
\* else "not enough available devices ..."
FailureKind(skippedDueToLimit, totalDevices) ==
    IF skippedDueToLimit = totalDevices THEN "upperlimit" ELSE "notenough"

\* Variant: the responses collected so far are handed back with the error.
FailedResponse_Partial(responses) == responses

\* return nil, fmt.Errorf(...): the response handed back with an error
FailedResponse(responses) == [isnil |-> TRUE, ContainerResponses |-> <<>>]

IdleCall ==
    [pc |-> "idle", n |-> 0, i |-> 0, devices |-> <<>>, upperLimit |-> 0,
     perm |-> <<>>, resp |-> [isnil |-> TRUE, ContainerResponses |-> <<>>],
     err |-> "none"]

\* A call that has returned: its locals are gone, its result stays with the
\* caller (i is the index of the failing container of a failed call).
Returned(call, resp, err) ==
    [call EXCEPT !.pc = "done", !.devices = <<>>, !.upperLimit = 0, !.perm = <<>>,
                 !.resp = resp, !.err = err]

\* Allocate up to the loop over the container requests: discovery, the
\* configuration load and the limit.  n is len(reqs.ContainerRequests).
AllocateBegin(c, n, fails) ==
    /\ ~crashed
    /\ server = "running"
    /\ alloc[c].pc \in {"idle", "done"}
    /\ LET d == GetDiscoveredDevices(Config, Cache, now, fails)
           loaded == LoadDevicePluginConfig(cfgFile)
           call == [IdleCall EXCEPT !.n = n]
       IN  /\ Cache' = d.cache
           /\ lastScan' = ScanRecord(d, Config, now)
           /\ IF d.err # "none"
              THEN /\ alloc' = [alloc EXCEPT ![c] = Returned(call, call.resp, d.err)]
                   /\ UNCHANGED <<crashed, grantsReturned>>
              ELSE IF loaded.config.isnil
              THEN \* config.UpperLimitPerDevice on a nil *DevicePluginConfig
                   /\ crashed' = TRUE
                   /\ alloc' = [alloc EXCEPT ![c] = [call EXCEPT !.pc = "panic"]]
                   /\ UNCHANGED grantsReturned
              ELSE LET ready == [call EXCEPT
                                   !.devices = d.devices,
                                   !.upperLimit =
                                       EffectiveUpperLimit(loaded.config.v.UpperLimitPerDevice),
                                   !.perm = GetValidatedPermission(loaded.config),
                                   !.resp = [isnil |-> FALSE, ContainerResponses |-> <<>>]]
                   IN  /\ alloc' = [alloc EXCEPT ![c] =
                              IF n = 0 THEN Returned(ready, ready.resp, "none")
                              ELSE [ready EXCEPT !.pc = "loop"]]
                       /\ UNCHANGED <<crashed, grantsReturned>>
    /\ UNCHANGED <<envVars, Config, devs, server, stopClosed, sockFile, DeviceUsage, disc,
                   ret, watchVars, serveRet, lockVars>>

\* Variant: a failing request gives back what the ledger holds.
ContainerOutcome_Rollback(call, usage, ids) ==
    LET scanned == ScannedDevices(call.devices, ids)
        r == ScanForDevice(usage, scanned, 1, call.upperLimit, call.perm, 0)
    IN  IF r.allocated = 0
        THEN [usage |-> [d \in DOMAIN usage |-> 0],
              call |-> Returned(call, FailedResponse(call.resp),
                                FailureKind(r.skippedDueToLimit, Len(call.devices)))]
        ELSE LET resp == [call.resp EXCEPT
                            !.ContainerResponses = Append(@, [Devices |-> r.ds])]
                 next == [call EXCEPT !.i = @ + 1, !.resp = resp]
             IN  [usage |-> r.usage,
                  call |-> IF call.i + 1 = call.n
                           THEN Returned(next, resp, "none") ELSE next]

\* One iteration of the loop over the container requests, for the request
\* with DevicesIDs `ids`: the locked scan of the devices, then the failure
\* return or the append to the responses (and the final return after the last
\* request).  Gives the ledger and the call as the iteration leaves them.
ContainerOutcome(call, usage, ids) ==
    LET scanned == ScannedDevices(call.devices, ids)
        r == ScanForDevice(usage, scanned, 1, call.upperLimit, call.perm, 0)
    IN  IF r.allocated = 0
        THEN [usage |-> r.usage,
              call |-> Returned(call, FailedResponse(call.resp),
                                FailureKind(r.skippedDueToLimit, Len(call.devices)))]
        ELSE LET resp == [call.resp EXCEPT
                            !.ContainerResponses = Append(@, [Devices |-> r.ds])]
                 next == [call EXCEPT !.i = @ + 1, !.resp = resp]
             IN  [usage |-> r.usage,
                  call |-> IF call.i + 1 = call.n
                           THEN Returned(next, resp, "none") ELSE next]

AllocateContainer(c, ids) ==
    /\ ~crashed
    /\ alloc[c].pc = "loop"
    /\ LET o == ContainerOutcome(alloc[c], DeviceUsage, ids)
       IN  /\ DeviceUsage' = o.usage
           /\ alloc' = [alloc EXCEPT ![c] = o.call]
           /\ grantsReturned' =
                  IF o.call.pc = "done" /\ o.call.err = "none"
                  THEN grantsReturned + o.call.n ELSE grantsReturned
    /\ UNCHANGED <<envVars, Config, devs, server, stopClosed, sockFile, Cache, crashed,
                   disc, lastScan, ret, watchVars, serveRet, lockVars>>

\* ------------------------------------------------------------ Serve and Stop
\* Variant: Stop leaves the socket file behind.
StopEffect_KeepSocket ==
    /\ server' = "nil"
    /\ stopClosed' = TRUE
    /\ sockFile' = TRUE

\* Stop, called with a server running: p.server.Stop(); p.server = nil;
\* close(p.stop); cleanup().  (With no server it returns nil at once.)
StopEffect ==
    /\ server' = "nil"
    /\ stopClosed' = TRUE
    /\ sockFile' = FALSE

ServeOutcomes == {"ok", "cleanupFail", "listenFail", "dialFail", "registerFail"}

\* The error Serve returns for each answer ("none": nil).
ServeError(outcome) ==
    CASE outcome = "cleanupFail" -> "cleanup"
      [] outcome = "listenFail" -> "listen"
      [] outcome = "dialFail" -> "dial"
      [] outcome = "registerFail" -> "register"
      [] OTHER -> "none"

\* serveRet is kept only by the specifications that start it at NotReturned;
\* the others start it at NotRecorded and it stays there.
NotRecorded == "notRecorded"
NotReturned == "notReturned"
ServeReturn(current, err) == IF current = NotRecorded THEN NotRecorded ELSE err

\* Serve: Start (configuration, discovery, cleanup, listen, gRPC server, dial)
\* and Register; a failed registration runs Stop.  `outcome` is what the
\* operating system and the kubelet answer.
Serve(outcome, fails) ==
    /\ ~crashed
    /\ server = "nil"
    /\ ~stopClosed
    /\ LET loaded == LoadDevicePluginConfig(cfgFile)
           d == GetDiscoveredDevices(loaded.config, Cache, now, fails)
       IN  /\ Config' = loaded.config
           /\ Cache' = d.cache
           /\ lastScan' = ScanRecord(d, loaded.config, now)
           /\ IF d.err # "none"
              THEN UNCHANGED <<devs, server, stopClosed, sockFile>>
              ELSE /\ devs' = d.devices
                   /\ CASE outcome = "cleanupFail" ->
                             UNCHANGED <<server, stopClosed, sockFile>>
                        [] outcome = "listenFail" ->
                             /\ sockFile' = FALSE
                             /\ UNCHANGED <<server, stopClosed>>
                        [] outcome = "dialFail" ->
                             /\ sockFile' = TRUE
                             /\ server' = "running"
                             /\ UNCHANGED stopClosed
                        [] outcome = "registerFail" -> StopEffect
                        [] OTHER ->
                             /\ sockFile' = TRUE
                             /\ server' = "running"
                             /\ UNCHANGED stopClosed
           /\ serveRet' = ServeReturn(serveRet, IF d.err # "none" THEN "scan"
                                                  ELSE ServeError(outcome))
    /\ UNCHANGED <<envVars, DeviceUsage, crashed, alloc, disc, grantsReturned, ret,
                   watchVars, lockVars>>

\* A direct call of GetDiscoveredDevices.
Discover(fails) ==
    /\ ~crashed
    /\ LET d == GetDiscoveredDevices(Config, Cache, now, fails)
       IN  /\ Cache' = d.cache
           /\ lastScan' = ScanRecord(d, Config, now)
           /\ disc' = [k |-> 1 - disc.k, devices |-> d.devices, isnil |-> d.isnil,
                       err |-> d.err, scanned |-> d.scanned, scanOk |-> d.scanOk]
    /\ UNCHANGED <<envVars, Config, devs, server, stopClosed, sockFile, DeviceUsage,
                   crashed, alloc, grantsReturned, ret, watchVars, serveRet, lockVars>>

\* ------------------------------------------------------------- environment
TickSteps == {30, 120}

Tick(delta) ==
    /\ ticks < MaxTicks
    /\ ticks' = ticks + 1
    /\ now' = now + delta
    /\ UNCHANGED <<cfgFile, blockDevs, hostFiles, hostChanges, pluginVars,
                   alloc, disc, lastScan, grantsReturned, ret, watchVars, serveRet, lockVars>>

BlockDevLists == {<<>>, <<SdA>>, <<SdA, SdB>>}

HostChange(list) ==
    /\ hostChanges < MaxHostChanges
    /\ list # blockDevs
    /\ hostChanges' = hostChanges + 1
    /\ blockDevs' = list
    /\ UNCHANGED <<cfgFile, hostFiles, now, ticks, pluginVars,
                   alloc, disc, lastScan, grantsReturned, ret, watchVars, serveRet, lockVars>>

\* --------------------------------------------------------- configurations
BaseConfig ==
    [NxGzip |-> FALSE, Permissions |-> <<"R", "W">>, IncludeDevices |-> NilSlice,
     ExcludeDevices |-> NilSlice, DiscoveryStrategy |-> "default",
     ScanInterval |-> <<"1", "m">>, UpperLimitPerDevice |-> 1]

OkFile(c) == [kind |-> "ok", cfg |-> c]
BrokenFile(kind) == [kind |-> kind, cfg |-> EmptyConfig]

\* configurations of the allocator's checks
AllocConfigs ==
    {[BaseConfig EXCEPT !.UpperLimitPerDevice = -1],
     [BaseConfig EXCEPT !.UpperLimitPerDevice = 0, !.IncludeDevices = Slice(<<>>)],
     [BaseConfig EXCEPT !.UpperLimitPerDevice = 2, !.DiscoveryStrategy = "time"],
     [BaseConfig EXCEPT !.NxGzip = TRUE, !.ExcludeDevices = Slice(<<SdA>>)]}

AllocFiles ==
    {OkFile(c) : c \in AllocConfigs}
    \cup {BrokenFile(k) : k \in {"missing", "malformed"}}

\* no package function has been called directly
NoCall == [op |-> "none"]

StreamIds == 1..MaxStreams

\* no ListAndWatch call yet
IdleStream ==
    [pc |-> "idle", err |-> "none", sent |-> 0, last |-> <<>>, scans |-> 0,
     seeded |-> FALSE, scanOk |-> FALSE, signal |-> "none", sentAtSignal |-> 0, d |-> "none"]

\* no monitor goroutine yet
NoMonitor == [pc |-> "none", found |-> "none", emitted |-> 0]

\* New(): restart has room for one signal, health has no buffer; no stream is
\* open and no monitor runs
InitWatch ==
    /\ stream = [s \in StreamIds |-> IdleStream]
    /\ monitor = [s \in StreamIds |-> NoMonitor]
    /\ restartCh = 0
    /\ healthCh = [blocked |-> 0, started |-> 0]

\* no GetDiscoveredDevices call under way
IdleGet ==
    [pc |-> "idle", t |-> 0, devices |-> <<>>, err |-> "none",
     scanned |-> FALSE, scanOk |-> FALSE]

\* &DeviceCache{}: the zero Mutex is unlocked
InitLock ==
    /\ cacheMutex = "free"
    /\ getting = [c \in Callers |-> IdleGet]

\* New(): empty device list, open channels, empty cache, empty ledger
InitPlugin ==
    /\ Config = NilConfig
    /\ devs = <<>>
    /\ server = "nil"
    /\ stopClosed = FALSE
    /\ Cache = [Devices |-> <<>>, LastScanTime |-> 0]
    /\ DeviceUsage = [d \in LedgerKeys |-> 0]
    /\ crashed = FALSE
    /\ alloc = [c \in Callers |-> IdleCall]
    /\ disc = [k |-> 0, devices |-> <<>>, isnil |-> TRUE, err |-> "none",
               scanned |-> FALSE, scanOk |-> FALSE]
    /\ lastScan = [done |-> FALSE, ok |-> FALSE, t |-> 0, devices |-> <<>>]
    /\ grantsReturned = 0
    /\ ret = NoCall
    /\ InitWatch
    /\ InitLock

Init ==
    /\ cfgFile \in AllocFiles
    /\ blockDevs \in BlockDevLists \ {<<>>}
    /\ hostFiles = RealHost
    /\ sockFile = FALSE
    /\ now = StartTime
    /\ ticks = 0
    /\ hostChanges = 0
    /\ InitPlugin
    /\ kubeletSock = TRUE
    /\ serveRet = NotRecorded

Next ==
    \/ \E o \in ServeOutcomes, fails \in BOOLEAN : Serve(o, fails)
    \/ \E c \in Callers, n \in 0..MaxBatch, fails \in BOOLEAN : AllocateBegin(c, n, fails)
    \/ \E c \in Callers, ids \in DeviceIDSets : AllocateContainer(c, ids)
    \/ \E list \in BlockDevLists : HostChange(list)

Spec == Init /\ [][Next]_vars

\* Sequential single-container allocation on a host that does not change and
\* whose scans succeed.
NextSeq ==
    \/ \E o \in ServeOutcomes : Serve(o, FALSE)
    \/ AllocateBegin("k1", 1, FALSE)
    \/ \E ids \in DeviceIDSets : AllocateContainer("k1", ids)

InitSeq ==
    /\ cfgFile \in AllocFiles
    /\ blockDevs \in BlockDevLists
    /\ hostFiles = RealHost
    /\ sockFile = FALSE
    /\ now = StartTime
    /\ ticks = 0
    /\ hostChanges = 0
    /\ InitPlugin
    /\ kubeletSock = TRUE
    /\ serveRet = NotRecorded

SpecSeq == InitSeq /\ [][NextSeq]_vars

\* Discovery calls over time.
CacheConfigs ==
    {[BaseConfig EXCEPT !.DiscoveryStrategy = "time", !.ScanInterval = iv] :
        iv \in {<<"1", "m">>, <<>>, <<"bad-format">>}}
    \cup {BaseConfig}

CacheFiles == {OkFile(c) : c \in CacheConfigs}

InitCache ==
    /\ cfgFile \in CacheFiles
    /\ blockDevs \in {<<>>, <<SdA>>}
    /\ hostFiles = RealHost
    /\ sockFile = FALSE
    /\ now = StartTime
    /\ ticks = 0
    /\ hostChanges = 0
    /\ InitPlugin
    /\ kubeletSock = TRUE
    /\ serveRet = NotRecorded

NextCache ==
    \/ \E fails \in BOOLEAN : Serve("ok", fails)
    \/ \E fails \in BOOLEAN : Discover(fails)
    \/ \E delta \in TickSteps : Tick(delta)
    \/ \E list \in BlockDevLists : HostChange(list)

SpecCache == InitCache /\ [][NextCache]_vars

\* Discovery calls on a plugin value built with a given Config and Cache (both
\* are exported fields of PowerPlugin), as the callers of the package build it:
\* &PowerPlugin{Config: ..., Cache: &DeviceCache{Devices: ..., LastScanTime: ...}}.
CacheAges == {30, 120, 3599, 3600}

\* The instant of the calls.
DiscoverTime == 7200

DiscoverConfigs ==
    CacheConfigs
    \cup {[BaseConfig EXCEPT !.DiscoveryStrategy = st] : st \in {"", "other"}}

DiscoverFiles == {OkFile(c) : c \in DiscoverConfigs}

BuiltCaches ==
    [Devices : {<<>>, <<SdA>>, <<SdB>>},
     LastScanTime : {0} \cup {DiscoverTime - age : age \in CacheAges}]

InitDiscover ==
    /\ cfgFile \in DiscoverFiles
    /\ blockDevs \in BlockDevLists
    /\ hostFiles = RealHost
    /\ sockFile = FALSE
    /\ now = DiscoverTime
    /\ ticks = 0
    /\ hostChanges = 0
    /\ Config \in {NilConfig, LoadDevicePluginConfig(cfgFile).config}
    /\ Cache \in BuiltCaches
    /\ devs = <<>>
    /\ server = "nil"
    /\ stopClosed = FALSE
    /\ DeviceUsage = [d \in LedgerKeys |-> 0]
    /\ crashed = FALSE
    /\ alloc = [c \in Callers |-> IdleCall]
    /\ disc = [k |-> 0, devices |-> <<>>, isnil |-> TRUE, err |-> "none",
               scanned |-> FALSE, scanOk |-> FALSE]
    /\ lastScan = [done |-> FALSE, ok |-> FALSE, t |-> 0, devices |-> <<>>]
    /\ grantsReturned = 0
    /\ ret = NoCall
    /\ InitWatch
    /\ InitLock
    /\ kubeletSock = TRUE
    /\ serveRet = NotRecorded

NextDiscover == \E fails \in BOOLEAN : Discover(fails)

SpecDiscover == InitDiscover /\ [][NextDiscover]_vars

\* ------------------------------------------- direct calls of the functions
\* The exported functions of the package, each called once on arguments drawn
\* from the sets below; ret keeps the arguments and the result.
RECURSIVE SeqsUpTo(_, _)
SeqsUpTo(S, n) ==
    IF n = 0 THEN {<<>>}
    ELSE LET shorter == SeqsUpTo(S, n - 1)
         IN  shorter \cup {Append(q, x) : q \in shorter, x \in S}

DevStar == <<DevPrefix, "*">>                  \* "/dev/*"
BareSdA == <<"sda">>                           \* "sda"
BadPattern == <<"[">>                          \* "["
BlankEntry == <<" ">>                          \* " "
PaddedSdB == <<" ", DevPrefix, "sdb", " ">>    \* " /dev/sdb "

ExcludePatterns == {SdA, BareSdA, BadPattern, NxGzipPath}
IncludePatterns == {BlankEntry, SdA, DevStar, BadPattern, PaddedSdB}

ExcludeLists == {NilSlice} \cup {Slice(q) : q \in SeqsUpTo(ExcludePatterns, MaxPatterns)}
IncludeLists == {NilSlice} \cup {Slice(q) : q \in SeqsUpTo(IncludePatterns, MaxPatterns)}

\* what GetBlockDevices enumerates: "/dev/" + name for every disk and partition
RawLists == {<<SdA>>, <<SdA, SdB>>, <<SdB, SdA>>}

\* hosts: every path a regular device node, or /dev/sdb a dangling link
Hosts == {RealHost, HostOf(HostPaths, HostPaths \ {SdB})}

PermissionLetters == {"r", "w", "m", "R", "W", "M", "x"}

CallMatchesAny(dev, patterns) ==
    /\ ret = NoCall
    /\ ret' = [op |-> "MatchesAny", dev |-> dev, patterns |-> patterns,
               result |-> MatchesAny(dev, patterns)]
    /\ UNCHANGED <<envVars, pluginVars, alloc, disc, lastScan, grantsReturned,
                   watchVars, serveRet, lockVars>>

CallApplyIncludeFilters(devices, includes, files) ==
    /\ ret = NoCall
    /\ ret' = [op |-> "ApplyIncludeFilters", devices |-> devices, includes |-> includes,
               files |-> files, result |-> ApplyIncludeFilters(devices, includes, files)]
    /\ UNCHANGED <<envVars, pluginVars, alloc, disc, lastScan, grantsReturned,
                   watchVars, serveRet, lockVars>>

\* ScanRootForDevicesWithDeps on a scanner whose LoadConfig gives `config`,
\* whose GetBlockDevices gives `block` and whose files are `files`.
CallScanRoot(config, block, files, nxGzipEnabled) ==
    /\ ret = NoCall
    /\ ret' = [op |-> "ScanRoot", config |-> config, block |-> block, files |-> files,
               nxGzipEnabled |-> nxGzipEnabled, pass |-> 1, first |-> <<>>,
               result |-> ScanRootForDevicesWithDeps([config |-> config, err |-> "none"],
                              block, files, nxGzipEnabled)]
    /\ UNCHANGED <<envVars, pluginVars, alloc, disc, lastScan, grantsReturned,
                   watchVars, serveRet, lockVars>>

\* The exclude and include passes applied to the list they produced (the same
\* configuration and host, no offload device).
FilterAgain ==
    /\ ret.op = "ScanRoot"
    /\ ret.pass = 1
    /\ ~ret.nxGzipEnabled
    /\ ~ret.result.err
    /\ LET again == [devices |-> ret.result.devices, err |-> FALSE]
       IN  ret' = [ret EXCEPT !.block = again, !.pass = 2, !.first = ret.result.devices,
                              !.result = ScanRootForDevicesWithDeps(
                                   [config |-> ret.config, err |-> "none"],
                                   again, ret.files, FALSE)]
    /\ UNCHANGED <<envVars, pluginVars, alloc, disc, lastScan, grantsReturned,
                   watchVars, serveRet, lockVars>>

CallGetValidatedPermission(config) ==
    /\ ret = NoCall
    /\ ret' = [op |-> "GetValidatedPermission", config |-> config,
               result |-> GetValidatedPermission(config)]
    /\ UNCHANGED <<envVars, pluginVars, alloc, disc, lastScan, grantsReturned,
                   watchVars, serveRet, lockVars>>

FilterConfigs ==
    {NilConfig}
    \cup {ConfigPtr([EmptyConfig EXCEPT !.ExcludeDevices = ex, !.IncludeDevices = inc]) :
             ex \in ExcludeLists, inc \in IncludeLists}

PermissionConfigs ==
    {NilConfig}
    \cup {ConfigPtr([EmptyConfig EXCEPT !.Permissions = perm]) :
             perm \in SeqsUpTo(PermissionLetters, MaxPermLen)}

\* what a scanner's GetBlockDevices answers: a list, or an error
BlockOutcomes ==
    {[devices |-> raw, err |-> FALSE] : raw \in RawLists}
    \cup {[devices |-> <<>>, err |-> TRUE]}

InitCalls ==
    /\ cfgFile = BrokenFile("missing")
    /\ blockDevs = <<>>
    /\ hostFiles = RealHost
    /\ sockFile = FALSE
    /\ now = StartTime
    /\ ticks = 0
    /\ hostChanges = 0
    /\ InitPlugin
    /\ kubeletSock = TRUE
    /\ serveRet = NotRecorded

NextCalls ==
    \/ /\ ret = NoCall
       /\ \E dev \in HostPaths,
             patterns \in SeqsUpTo(ExcludePatterns \cup {DevStar}, MaxPatterns) :
             CallMatchesAny(dev, patterns)
    \/ /\ ret = NoCall
       /\ \E devices \in RawLists \cup {<<>>}, includes \in IncludeLists, files \in Hosts :
             CallApplyIncludeFilters(devices, includes, files)
    \/ /\ ret = NoCall
       /\ \E config \in FilterConfigs, block \in BlockOutcomes, files \in Hosts,
             nxGzipEnabled \in BOOLEAN :
             CallScanRoot(config, block, files, nxGzipEnabled)
    \/ FilterAgain
    \/ /\ ret = NoCall
       /\ \E config \in PermissionConfigs : CallGetValidatedPermission(config)

SpecCalls == InitCalls /\ [][NextCalls]_vars

\* ------------------------------------------------------------- ListAndWatch
\* Variant: ids count from one.
convertDeviceToPluginDevices_FromOne(devices) ==
    [i \in 1..Len(devices) |-> [ID |-> Itoa(i), Health |-> "Healthy"]]

\* convertDeviceToPluginDevices: one entry per device, the index as id, Healthy
convertDeviceToPluginDevices(devices) ==
    [i \in 1..Len(devices) |-> [ID |-> Itoa(i - 1), Health |-> "Healthy"]]

\* Variant: the stream seeds the list on every start.
NeedsSeeding_Always(devices) == TRUE

\* ListAndWatch discovers only when the in-memory list is empty
NeedsSeeding(devices) == Len(devices) = 0

\* ListAndWatch up to its initial send: spawns a monitor, then seeds an empty
\* list by discovery; a failed discovery ends the stream.  The gRPC server
\* hands calls over while it runs.
ListAndWatchBegin(s, fails) ==
    /\ ~crashed
    /\ server = "running"
    /\ stream[s].pc = "idle"
    /\ \A t \in StreamIds : t < s => stream[t].pc # "idle"
    /\ monitor' = [monitor EXCEPT ![s] = [@ EXCEPT !.pc = "watching"]]
    /\ IF NeedsSeeding(devs)
       THEN LET d == GetDiscoveredDevices(Config, Cache, now, fails)
            IN  /\ Cache' = d.cache
                /\ lastScan' = ScanRecord(d, Config, now)
                /\ IF d.err # "none"
                   THEN /\ stream' = [stream EXCEPT ![s] =
                                [@ EXCEPT !.pc = "returned", !.err = "scan",
                                          !.scans = 1, !.seeded = Len(devs) = 0,
                                          !.scanOk = d.scanOk]]
                        /\ UNCHANGED devs
                   ELSE /\ devs' = d.devices
                        /\ stream' = [stream EXCEPT ![s] =
                                [@ EXCEPT !.pc = "send", !.scans = 1,
                                          !.seeded = Len(devs) = 0,
                                          !.scanOk = d.scanOk]]
       ELSE /\ ~fails
            /\ stream' = [stream EXCEPT ![s] = [@ EXCEPT !.pc = "send"]]
            /\ UNCHANGED <<devs, Cache, lastScan>>
    /\ UNCHANGED <<envVars, Config, server, stopClosed, sockFile, DeviceUsage, crashed,
                   alloc, disc, grantsReturned, ret, restartCh, healthCh, kubeletSock,
                   serveRet, lockVars>>

\* the initial stream.Send of the whole list; `ok` is the transport's answer
InitialSend(s, ok) ==
    /\ ~crashed
    /\ stream[s].pc = "send"
    /\ stream' = [stream EXCEPT ![s] =
            IF ok THEN [@ EXCEPT !.pc = "loop", !.sent = @ + 1,
                                 !.last = convertDeviceToPluginDevices(devs)]
                  ELSE [@ EXCEPT !.pc = "returned", !.err = "send"]]
    /\ UNCHANGED <<envVars, pluginVars, alloc, disc, lastScan, grantsReturned, ret,
                   monitor, restartCh, healthCh, kubeletSock, serveRet, lockVars>>

\* Variant: the loop has no case for the stop channel.
StopReady_Never(closed) == FALSE

\* case <-p.stop: ready once the channel is closed
StopReady(closed) == closed

\* select case <-p.stop: return nil
StreamStop(s) ==
    /\ ~crashed
    /\ stream[s].pc = "loop"
    /\ StopReady(stopClosed)
    /\ stream' = [stream EXCEPT ![s] =
            [@ EXCEPT !.pc = "returned", !.signal = "stop", !.sentAtSignal = stream[s].sent]]
    /\ UNCHANGED <<envVars, pluginVars, alloc, disc, lastScan, grantsReturned, ret,
                   monitor, restartCh, healthCh, kubeletSock, serveRet, lockVars>>

\* select case <-p.restart: the signal is taken; p.Stop() follows
StreamRestart(s) ==
    /\ ~crashed
    /\ stream[s].pc = "loop"
    /\ restartCh > 0
    /\ restartCh' = restartCh - 1
    /\ stream' = [stream EXCEPT ![s] =
            [@ EXCEPT !.pc = "stopCheck", !.signal = "restart",
                      !.sentAtSignal = stream[s].sent]]
    /\ UNCHANGED <<envVars, pluginVars, alloc, disc, lastScan, grantsReturned, ret,
                   monitor, healthCh, kubeletSock, serveRet, lockVars>>

\* Stop in the stream's goroutine: if p.server == nil { return nil }
StopCheck(s) ==
    /\ ~crashed
    /\ stream[s].pc = "stopCheck"
    /\ stream' = [stream EXCEPT ![s] =
            [@ EXCEPT !.pc = IF server = "nil" THEN "returned" ELSE "stopServer"]]
    /\ UNCHANGED <<envVars, pluginVars, alloc, disc, lastScan, grantsReturned, ret,
                   monitor, restartCh, healthCh, kubeletSock, serveRet, lockVars>>

\* Stop: p.server.Stop(); p.server = nil.  No lock orders two goroutines in
\* Stop: when another one has stored nil since the check, this one either
\* dereferences nil (`late`) or had made its call before that store.
StopServer(s, late) ==
    /\ ~crashed
    /\ stream[s].pc = "stopServer"
    /\ late => server = "nil"
    /\ IF late
       THEN /\ crashed' = TRUE
            /\ UNCHANGED <<server, stream>>
       ELSE /\ server' = "nil"
            /\ stream' = [stream EXCEPT ![s] = [@ EXCEPT !.pc = "stopClose"]]
            /\ UNCHANGED crashed
    /\ UNCHANGED <<envVars, Config, devs, stopClosed, sockFile, Cache, DeviceUsage,
                   alloc, disc, lastScan, grantsReturned, ret,
                   monitor, restartCh, healthCh, kubeletSock, serveRet, lockVars>>

\* Stop: close(p.stop); return p.cleanup().  Closing a closed channel panics.
StopClose(s) ==
    /\ ~crashed
    /\ stream[s].pc = "stopClose"
    /\ IF stopClosed
       THEN /\ crashed' = TRUE
            /\ UNCHANGED <<stopClosed, sockFile, stream>>
       ELSE /\ stopClosed' = TRUE
            /\ sockFile' = FALSE
            /\ stream' = [stream EXCEPT ![s] = [@ EXCEPT !.pc = "returned"]]
            /\ UNCHANGED crashed
    /\ UNCHANGED <<envVars, Config, devs, server, Cache, DeviceUsage,
                   alloc, disc, lastScan, grantsReturned, ret,
                   monitor, restartCh, healthCh, kubeletSock, serveRet, lockVars>>

\* Variant: a health update is answered with two sends.
SendsPerHealthUpdate_Two == 2

\* case d := <-p.health: one stream.Send per update
SendsPerHealthUpdate == 1

\* select case d := <-p.health: the sender is released, the device is marked
\* healthy, the whole list is sent again; a failed send ends the stream
StreamHealth(s, ok) ==
    /\ ~crashed
    /\ stream[s].pc = "loop"
    /\ healthCh.blocked > 0
    /\ healthCh' = [healthCh EXCEPT !.blocked = @ - 1]
    /\ stream' = [stream EXCEPT ![s] =
            IF ok THEN [@ EXCEPT !.signal = "health", !.d = "Healthy",
                                 !.sent = @ + SendsPerHealthUpdate,
                                 !.last = convertDeviceToPluginDevices(devs)]
                  ELSE [@ EXCEPT !.signal = "health", !.d = "Healthy",
                                 !.pc = "returned", !.err = "send"]]
    /\ UNCHANGED <<envVars, pluginVars, alloc, disc, lastScan, grantsReturned, ret,
                   monitor, restartCh, kubeletSock, serveRet, lockVars>>

\* unhealthy: p.health <- dev; the caller blocks until a stream receives
Unhealthy ==
    /\ ~crashed
    /\ healthCh.started < MaxHealth
    /\ healthCh' = [blocked |-> healthCh.blocked + 1, started |-> healthCh.started + 1]
    /\ UNCHANGED <<envVars, pluginVars, alloc, disc, lastScan, grantsReturned, ret,
                   stream, monitor, restartCh, kubeletSock, serveRet, lockVars>>

\* ------------------------------------------------------ MonitorSocketHealth
\* Variant: the monitor reports a socket missing whatever it finds.
MissingSocket_Always(kubelet, own) == "kubelet"

\* One tick of the monitor: the kubelet's socket is looked at first, then the
\* plugin's own; "none" when both are there.
MissingSocket(kubelet, own) ==
    IF ~kubelet THEN "kubelet" ELSE IF ~own THEN "own" ELSE "none"

\* capacity of p.restart
RestartCap == 1

\* a tick that finds a socket missing: the monitor goes on to send
MonitorCheck(s) ==
    /\ ~crashed
    /\ monitor[s].pc = "watching"
    /\ MissingSocket(kubeletSock, sockFile) # "none"
    /\ monitor' = [monitor EXCEPT ![s] =
            [@ EXCEPT !.pc = "sending",
                      !.found = MissingSocket(kubeletSock, sockFile)]]
    /\ UNCHANGED <<envVars, pluginVars, alloc, disc, lastScan, grantsReturned, ret,
                   stream, restartCh, healthCh, kubeletSock, serveRet, lockVars>>

\* p.restart <- struct{}{}; return.  The send waits for room in the buffer.
MonitorSend(s) ==
    /\ ~crashed
    /\ monitor[s].pc = "sending"
    /\ restartCh < RestartCap
    /\ restartCh' = restartCh + 1
    /\ monitor' = [monitor EXCEPT ![s] = [@ EXCEPT !.pc = "done", !.emitted = @ + 1]]
    /\ UNCHANGED <<envVars, pluginVars, alloc, disc, lastScan, grantsReturned, ret,
                   stream, healthCh, kubeletSock, serveRet, lockVars>>

\* the kubelet goes away and takes its registration socket with it
KubeletSocketGone ==
    /\ kubeletSock
    /\ kubeletSock' = FALSE
    /\ UNCHANGED <<envVars, pluginVars, alloc, disc, lastScan, grantsReturned, ret,
                   stream, monitor, restartCh, healthCh, serveRet, lockVars>>

\* the plugin's socket file is deleted under the running server
SocketFileGone ==
    /\ sockFile
    /\ server = "running"
    /\ sockFile' = FALSE
    /\ UNCHANGED <<envVars, Config, devs, server, stopClosed, Cache, DeviceUsage,
                   crashed, alloc, disc, lastScan, grantsReturned, ret,
                   stream, monitor, restartCh, healthCh, kubeletSock, serveRet, lockVars>>

\* The daemon serving streams, on a host whose disks show up late.  Serve is
\* called until it has returned nil once.
StreamServeOutcomes == {"ok", "listenFail", "registerFail"}

InitStream ==
    /\ cfgFile = OkFile(BaseConfig)
    /\ blockDevs = <<>>
    /\ hostFiles = RealHost
    /\ sockFile = FALSE
    /\ now = StartTime
    /\ ticks = 0
    /\ hostChanges = 0
    /\ InitPlugin
    /\ kubeletSock = TRUE
    /\ serveRet = NotReturned

StreamStep(s) ==
    \/ \E fails \in BOOLEAN : ListAndWatchBegin(s, fails)
    \/ \E ok \in BOOLEAN : InitialSend(s, ok)
    \/ StreamStop(s)
    \/ StreamRestart(s)
    \/ StopCheck(s)
    \/ \E late \in BOOLEAN : StopServer(s, late)
    \/ StopClose(s)
    \/ \E ok \in BOOLEAN : StreamHealth(s, ok)

MonitorStep(s) == MonitorCheck(s) \/ MonitorSend(s)

NextStream ==
    \/ /\ serveRet # "none"
       /\ \E o \in StreamServeOutcomes, fails \in BOOLEAN : Serve(o, fails)
    \/ \E s \in StreamIds : StreamStep(s)
    \/ \E s \in StreamIds : MonitorStep(s)
    \/ Unhealthy
    \/ KubeletSocketGone
    \/ SocketFileGone
    \/ HostChange(<<SdA, SdB>>)

SpecStream == InitStream /\ [][NextStream]_vars

\* The same daemon with fair stream goroutines: one that can take a step takes
\* one, and a select with several ready cases picks each of them with the same
\* chance, so a case that stays ready is taken.  Nothing is asked of the
\* monitors, the senders of health updates and the host: a signal may never
\* arrive.
FairStream ==
    /\ \A s \in StreamIds :
          /\ WF_vars(\E ok \in BOOLEAN : InitialSend(s, ok))
          /\ WF_vars(StreamStop(s))
          /\ WF_vars(StreamRestart(s))
          /\ WF_vars(\E ok \in BOOLEAN : StreamHealth(s, ok))
          /\ WF_vars(StopCheck(s))
          /\ WF_vars(\E late \in BOOLEAN : StopServer(s, late))
          /\ WF_vars(StopClose(s))

SpecStreamFair == SpecStream /\ FairStream

\* Fair monitors as well: a monitor's ticker keeps firing, so a monitor that
\* can see a missing socket goes on to send, and a send that finds room in the
\* buffer again and again goes through (blocked senders are served in order).
FairMonitor ==
    \A s \in StreamIds :
        /\ WF_vars(MonitorCheck(s))
        /\ SF_vars(MonitorSend(s))

SpecStreamAllFair == SpecStream /\ FairStream /\ FairMonitor

\* ------------------------------------- GetDevicePluginOptions, PreStartContainer
\* Variant: the plugin asks for the pre-start call.
DevicePluginOptions_PreStart ==
    [PreStartRequired |-> TRUE, GetPreferredAllocationAvailable |-> FALSE]

\* the options GetDevicePluginOptions returns
DevicePluginOptions ==
    [PreStartRequired |-> FALSE, GetPreferredAllocationAvailable |-> FALSE]

\* &pluginapi.PreStartContainerResponse{}: a response with no field set
PreStartContainerResponse == [set |-> {}]

\* GetDevicePluginOptions: returns the options and nil
GetDevicePluginOptions ==
    /\ ~crashed
    /\ server = "running"
    /\ ret' = [op |-> "GetDevicePluginOptions", resp |-> DevicePluginOptions,
               err |-> "none"]
    /\ UNCHANGED <<envVars, pluginVars, alloc, disc, lastScan, grantsReturned,
                   watchVars, serveRet, lockVars>>

\* PreStartContainer: returns the empty response and nil
PreStartContainer ==
    /\ ~crashed
    /\ server = "running"
    /\ ret' = [op |-> "PreStartContainer", resp |-> PreStartContainerResponse,
               err |-> "none"]
    /\ UNCHANGED <<envVars, pluginVars, alloc, disc, lastScan, grantsReturned,
                   watchVars, serveRet, lockVars>>

\* Sequential allocation with the two calls in between.
NextOptions ==
    \/ NextSeq
    \/ GetDevicePluginOptions
    \/ PreStartContainer

SpecOptions == InitSeq /\ [][NextOptions]_vars

\* ------------------------------------- concurrent GetDiscoveredDevices calls
\* Variant: the time strategy does not wait for the cache's lock.
CanLock_Always(mutex) == TRUE

\* p.Cache.Mutex.Lock() goes through when nobody holds the mutex
CanLock(mutex) == mutex = "free"

\* GetDiscoveredDevices of the time strategy up to the scan: the lock is taken,
\* the clock is read, and a cache that is fresh is returned (the deferred
\* unlock runs with the return).
GetEnter(c) ==
    /\ ~crashed
    /\ getting[c].pc \in {"idle", "done"}
    /\ StrategyOf(Config) = "time"
    /\ CanLock(cacheMutex)
    /\ IF UseCached(Cache, now, ScanIntervalOf(Config))
       THEN /\ getting' = [getting EXCEPT ![c] =
                    [pc |-> "done", t |-> now, devices |-> Cache.Devices,
                     err |-> "none", scanned |-> FALSE, scanOk |-> FALSE]]
            /\ cacheMutex' = "free"
       ELSE /\ getting' = [getting EXCEPT ![c] = [IdleGet EXCEPT !.pc = "scanning", !.t = now]]
            /\ cacheMutex' = c
    /\ UNCHANGED <<envVars, pluginVars, alloc, disc, lastScan, grantsReturned, ret,
                   watchVars, serveRet>>

\* the fresh scan and what follows it: the two writes to the cache after a
\* success, the fallback or the error after a failure; the deferred unlock
GetScan(c, fails) ==
    /\ ~crashed
    /\ getting[c].pc = "scanning"
    /\ LET scan == ScanRootForDevicesWithDeps(LoadDevicePluginConfig(cfgFile),
                       GetBlockDevices(fails), hostFiles, NxGzipOf(Config))
           failed == ScanFailureResult(Cache)
       IN  IF scan.err
           THEN /\ getting' = [getting EXCEPT ![c] =
                        [pc |-> "done", t |-> getting[c].t, devices |-> failed.devices,
                         err |-> failed.err, scanned |-> TRUE, scanOk |-> FALSE]]
                /\ lastScan' = [done |-> TRUE, ok |-> FALSE, t |-> getting[c].t,
                                devices |-> <<>>]
                /\ UNCHANGED Cache
           ELSE /\ getting' = [getting EXCEPT ![c] =
                        [pc |-> "done", t |-> getting[c].t, devices |-> scan.devices,
                         err |-> "none", scanned |-> TRUE, scanOk |-> TRUE]]
                /\ lastScan' = [done |-> TRUE, ok |-> TRUE, t |-> getting[c].t,
                                devices |-> scan.devices]
                /\ Cache' = CacheAfterScan(Cache, scan.devices, getting[c].t)
    /\ cacheMutex' = "free"
    /\ UNCHANGED <<envVars, Config, devs, server, stopClosed, sockFile, DeviceUsage,
                   crashed, alloc, disc, grantsReturned, ret, watchVars, serveRet>>

\* Concurrent callers of discovery on a plugin whose configuration selects the
\* time strategy with a window of one minute.
LockConfig == [BaseConfig EXCEPT !.DiscoveryStrategy = "time"]

InitLockSpec ==
    /\ cfgFile = OkFile(LockConfig)
    /\ blockDevs \in BlockDevLists
    /\ hostFiles = RealHost
    /\ sockFile = FALSE
    /\ now = StartTime
    /\ ticks = 0
    /\ hostChanges = 0
    /\ InitPlugin
    /\ kubeletSock = TRUE
    /\ serveRet = NotRecorded

\* the plugin has its configuration from Start before the calls come
NextLock ==
    \/ /\ Config.isnil
       /\ Serve("ok", FALSE)
    \/ \E c \in Callers : GetEnter(c)
    \/ \E c \in Callers, fails \in BOOLEAN : GetScan(c, fails)
    \/ \E delta \in TickSteps : Tick(delta)
    \/ \E list \in BlockDevLists : HostChange(list)

SpecLock == InitLockSpec /\ [][NextLock]_vars

\* ================================================================== claims
\* The configured upper limit of the file, and the limit the claims call L:
\* the configured value, or 1 when it is <= 0 (a file that gives no
\* configuration counts as no configured value).
ConfiguredLimit ==
    IF cfgFile.kind = "ok" THEN cfgFile.cfg.UpperLimitPerDevice ELSE 0

ClaimLimit == IF ConfiguredLimit <= 0 THEN 1 ELSE ConfiguredLimit

\* "the device's path with the /dev/ prefix"
PrefixedPath(dev) ==
    IF Len(dev) > 0 /\ dev[1] = "/dev/" THEN dev ELSE <<"/dev/">> \o dev

RECURSIVE SumOver(_, _)
SumOver(f, keys) ==
    IF keys = {} THEN 0
    ELSE LET k == CHOOSE x \in keys : TRUE IN f[k] + SumOver(f, keys \ {k})

Quiescent == \A c \in Callers : alloc[c].pc \in {"idle", "done"}

\* a step in which the Allocate call of c handles one container request
ContainerStep(c) == alloc[c].pc = "loop" /\ alloc'[c] # alloc[c]

\* a step in which the Allocate call of c fails at a container request
FailingStep(c) ==
    ContainerStep(c) /\ alloc'[c].pc = "done" /\ alloc'[c].err # "none"

\* a step in which the Allocate call of c grants a device to a container request
GrantingStep(c) == ContainerStep(c) /\ alloc'[c].i = alloc[c].i + 1

\* C1: with the limit L fixed by the configuration file, no device's ledger
\* count exceeds L in any reachable state, whatever the interleaving of the
\* concurrent Allocate calls.
C1_UpperLimitInvariant == \A d \in LedgerKeys : DeviceUsage[d] <= ClaimLimit

\* C1 witness: with L = 2 a device has reached the limit and a call has been
\* refused for lack of capacity.
C1_Witness ==
    /\ ClaimLimit = 2
    /\ \E d \in LedgerKeys : DeviceUsage[d] = 2
    /\ \E c \in Callers : alloc[c].pc = "done" /\ alloc[c].err = "upperlimit"

\* C2: whenever no Allocate call is in flight, the sum of the ledger counts
\* equals the number of container grants returned in successful responses (a
\* failed call leaves no increment behind).
C2_LedgerEqualsGrants ==
    Quiescent => SumOver(DeviceUsage, LedgerKeys) = grantsReturned

\* C3: a call that fails at a container request returns an error and a nil
\* response, with no grant of the batch in it, and the failing request leaves
\* the ledger as it was.
C3_FailedBatchReturnsNothing ==
    [][\A c \in Callers :
          FailingStep(c) =>
              /\ alloc'[c].resp.isnil
              /\ alloc'[c].resp.ContainerResponses = <<>>
              /\ DeviceUsage' = DeviceUsage]_vars

\* C3 witness: a two-container call has failed at its second request, after
\* its first request was granted a device.
C3_Witness ==
    \E c \in Callers :
        /\ alloc[c].pc = "done"
        /\ alloc[c].err = "upperlimit"
        /\ alloc[c].i = 1
        /\ alloc[c].resp.isnil

\* C4: a granted container request gets exactly one device, the first of the
\* discovered list whose count is below the limit; only that count changes, by
\* one; host path and container path are the device's path with the /dev/
\* prefix; a successful response has one such entry per container request.
C4_FirstFit ==
    [][\A c \in Callers :
          /\ GrantingStep(c) =>
                LET call == alloc[c]
                    responses == alloc'[c].resp.ContainerResponses
                    grant == responses[call.i + 1].Devices
                IN  /\ Len(responses) = call.i + 1
                    /\ Len(grant) = 1
                    /\ \E k \in 1..Len(call.devices) :
                          LET path == PrefixedPath(call.devices[k])
                          IN  /\ \A j \in 1..(k - 1) :
                                     DeviceUsage[PrefixedPath(call.devices[j])]
                                         >= call.upperLimit
                              /\ DeviceUsage[path] < call.upperLimit
                              /\ grant[1].HostPath = path
                              /\ grant[1].ContainerPath = path
                              /\ DeviceUsage' = [DeviceUsage EXCEPT ![path] = @ + 1]
          /\ (ContainerStep(c) /\ alloc'[c].pc = "done" /\ alloc'[c].err = "none") =>
                /\ ~alloc'[c].resp.isnil
                /\ Len(alloc'[c].resp.ContainerResponses) = alloc'[c].n
                /\ \A r \in 1..alloc'[c].n :
                       Len(alloc'[c].resp.ContainerResponses[r].Devices) = 1]_vars

\* C4 witness: a successful call was granted the second device of the list
\* for a device listed without the prefix, the first being full.
C4_Witness ==
    \E c \in Callers :
        /\ alloc[c].pc = "done"
        /\ alloc[c].err = "none"
        /\ alloc[c].n = 2
        /\ alloc[c].resp.ContainerResponses[2].Devices[1].HostPath = SdB
        /\ Cache.Devices = <<>>
        /\ cfgFile.kind = "ok"
        /\ ~cfgFile.cfg.IncludeDevices.isnil

\* C5: on a fixed list of n distinct devices with limit L, sequential
\* single-container calls succeed while fewer than n*L grants were made, and
\* fail with the capacity error once n*L grants were made.
C5_CapacityExhaustion ==
    [][(ContainerStep("k1")
          /\ Cardinality({PrefixedPath(alloc["k1"].devices[k]) :
                             k \in 1..Len(alloc["k1"].devices)})
                = Len(alloc["k1"].devices)) =>
          LET capacity == Len(alloc["k1"].devices) * ClaimLimit
          IN  IF grantsReturned < capacity
              THEN /\ alloc'["k1"].err = "none"
                   /\ grantsReturned' = grantsReturned + 1
              ELSE /\ grantsReturned = capacity
                   /\ alloc'["k1"].err = "upperlimit"
                   /\ grantsReturned' = grantsReturned]_vars

\* C5 witness: two devices and L = 2: four calls succeeded and the fifth was
\* refused.
C5_Witness ==
    /\ grantsReturned = 4
    /\ ClaimLimit = 2
    /\ alloc["k1"].pc = "done"
    /\ alloc["k1"].err = "upperlimit"

\* The rest of an Allocate call run without interruption, the remaining
\* container requests carrying the DevicesIDs of idsSeq.
RECURSIVE RunCall(_, _, _)
RunCall(call, usage, idsSeq) ==
    IF call.pc # "loop" THEN [usage |-> usage, call |-> call]
    ELSE LET o == ContainerOutcome(call, usage, Head(idsSeq))
         IN  RunCall(o.call, o.usage, Tail(idsSeq))

IdSeqs(n) == [1..n -> DeviceIDSets]

\* C6: from the same ledger, device list and limit, the rest of a call gives
\* the same grants or error and the same ledger whatever DevicesIDs its
\* container requests carry.
C6_IdsNotConsulted ==
    \A c \in Callers :
        alloc[c].pc = "loop" =>
            \A a, b \in IdSeqs(alloc[c].n - alloc[c].i) :
                RunCall(alloc[c], DeviceUsage, a) = RunCall(alloc[c], DeviceUsage, b)

\* C6 witness: a two-container call is at its first request over a list of two
\* devices, one of them already in use.
C6_Witness ==
    \E c \in Callers :
        /\ alloc[c].pc = "loop"
        /\ alloc[c].n = 2
        /\ alloc[c].i = 0
        /\ Len(alloc[c].devices) = 2
        /\ \E d \in LedgerKeys : DeviceUsage[d] > 0

\* C7: a call that fails at container i fails with the upper-limit error for
\* container i exactly when every available device is at its limit, and with
\* the generic error otherwise.
C7_FailureKind ==
    [][\A c \in Callers :
          FailingStep(c) =>
              LET call == alloc[c]
                  allAtLimit ==
                      \A k \in 1..Len(call.devices) :
                          DeviceUsage[PrefixedPath(call.devices[k])] >= call.upperLimit
              IN  /\ alloc'[c].i = call.i
                  /\ alloc'[c].err \in {"upperlimit", "notenough"}
                  /\ (alloc'[c].err = "upperlimit") <=> allAtLimit]_vars

\* C7 witness: a call failed with the upper-limit error at container 0 over a
\* list of two devices that are both in use.
C7_Witness ==
    \E c \in Callers :
        /\ alloc[c].pc = "done"
        /\ alloc[c].err = "upperlimit"
        /\ alloc[c].i = 0
        /\ DeviceUsage[SdA] > 0
        /\ DeviceUsage[SdB] > 0

\* C8: when the configured limit is absent, zero or negative, every call works
\* with the limit 1 and no device is granted to more than one container.
C8_NonPositiveLimitIsOne ==
    (ConfiguredLimit <= 0) =>
        /\ \A d \in LedgerKeys : DeviceUsage[d] <= 1
        /\ \A c \in Callers : alloc[c].pc = "loop" => alloc[c].upperLimit = 1

\* C8 witness: under a negative configured limit a device is in use once and
\* a further request was refused.
C8_Witness ==
    /\ ConfiguredLimit < 0
    /\ \E d \in LedgerKeys : DeviceUsage[d] = 1
    /\ \E c \in Callers : alloc[c].pc = "done" /\ alloc[c].err = "upperlimit"

\* a step that is a direct GetDiscoveredDevices call
DiscoverStep == disc'.k # disc.k

\* C9 as stated: under the time strategy a call after a successful scan at t,
\* with no scan in between, returns that scan's list without scanning when
\* now - t < scanInterval, and scans when now - t >= scanInterval.
C9_TimeWindow ==
    [][(DiscoverStep /\ StrategyOf(Config) = "time" /\ lastScan.done /\ lastScan.ok) =>
          IF now - lastScan.t < ScanIntervalOf(Config)
          THEN /\ ~disc'.scanned
               /\ disc'.err = "none"
               /\ disc'.devices = lastScan.devices
          ELSE disc'.scanned]_vars

\* C9 amended: the list is returned from the cache only when the scan
\* produced a non-empty list; after a scan that produced an empty list the
\* call scans whatever time has passed.
C9_TimeWindowNonEmpty ==
    [][(DiscoverStep /\ StrategyOf(Config) = "time" /\ lastScan.done /\ lastScan.ok) =>
          IF now - lastScan.t < ScanIntervalOf(Config) /\ lastScan.devices # <<>>
          THEN /\ ~disc'.scanned
               /\ disc'.err = "none"
               /\ disc'.devices = lastScan.devices
          ELSE disc'.scanned]_vars

\* C9 witness: a call made 30 s after a successful scan, with a 1 m interval,
\* was served the scan's list from the cache although the host has changed.
C9_Witness ==
    /\ disc.k = 1
    /\ ~disc.scanned
    /\ disc.devices # <<>>
    /\ lastScan.ok
    /\ now - lastScan.t = 30
    /\ ScanIntervalOf(Config) = 60
    /\ blockDevs # disc.devices

\* C10: under the time strategy a call whose fresh scan fails returns the
\* cached list without error when the cache is non-empty, and the scan error
\* with a nil list when the cache is empty.
C10_ScanFailureFallback ==
    [][(DiscoverStep /\ StrategyOf(Config) = "time" /\ disc'.scanned /\ ~disc'.scanOk) =>
          IF Len(Cache.Devices) > 0
          THEN /\ disc'.err = "none"
               /\ ~disc'.isnil
               /\ disc'.devices = Cache.Devices
               /\ Cache' = Cache
          ELSE /\ disc'.err = "scan"
               /\ disc'.isnil
               /\ disc'.devices = <<>>]_vars

\* C10 witness: after the window expired a scan failed and the call returned
\* the stale cached list without error.
C10_Witness ==
    /\ StrategyOf(Config) = "time"
    /\ disc.scanned
    /\ ~disc.scanOk
    /\ disc.err = "none"
    /\ disc.devices # <<>>
    /\ disc.devices = Cache.Devices

\* what a scan of the host gives now, when GetBlockDevices succeeds
FreshScan ==
    ScanRootForDevicesWithDeps(LoadDevicePluginConfig(cfgFile),
        [devices |-> blockDevs, err |-> FALSE], hostFiles, NxGzipOf(Config)).devices

TimeStrategyConfigured == ~Config.isnil /\ Config.v.DiscoveryStrategy = "time"

C12_DefaultStrategyFrame ==
    [][(DiscoverStep /\ ~TimeStrategyConfigured) =>
          /\ disc'.scanned
          /\ Cache' = Cache
          /\ IF disc'.scanOk
             THEN /\ disc'.err = "none"
                  /\ ~disc'.isnil
                  /\ disc'.devices = FreshScan
             ELSE /\ disc'.err = "scan"
                  /\ disc'.isnil
                  /\ disc'.devices = <<>>]_vars

\* C12 witness: with an absent strategy and a non-empty cache 30 s old, a call
\* scanned and returned a list that is not the cached one.
C12_Witness ==
    /\ disc.k = 1
    /\ ~Config.isnil
    /\ Config.v.DiscoveryStrategy = ""
    /\ Cache.Devices # <<>>
    /\ now - Cache.LastScanTime = 30
    /\ disc.scanned
    /\ disc.scanOk
    /\ disc.devices # Cache.Devices

\* the scan-interval string is absent or does not parse
IntervalUnusable ==
    /\ ~Config.isnil
    /\ Config.v.ScanInterval \in {<<>>, <<"bad-format">>}

\* C13: under the time strategy an absent or unparsable scan-interval is no
\* error and gives a window of exactly 60 minutes: a non-empty cache younger
\* than 60 minutes is returned without a scan, an older one triggers a scan.
C13_DefaultWindow ==
    [][(DiscoverStep /\ TimeStrategyConfigured /\ IntervalUnusable
          /\ Cache.Devices # <<>> /\ Cache.LastScanTime # 0) =>
          IF now - Cache.LastScanTime < 60 * 60
          THEN /\ ~disc'.scanned
               /\ disc'.err = "none"
               /\ disc'.devices = Cache.Devices
          ELSE /\ disc'.scanned
               /\ (disc'.scanOk => disc'.err = "none" /\ disc'.devices = FreshScan)]_vars

\* C13 witness: with an unparsable scan-interval a cache 59 m 59 s old was
\* returned without a scan.
C13_Witness ==
    /\ disc.k = 1
    /\ TimeStrategyConfigured
    /\ Config.v.ScanInterval = <<"bad-format">>
    /\ now - Cache.LastScanTime = 3599
    /\ ~disc.scanned
    /\ disc.err = "none"
    /\ disc.devices = Cache.Devices
    /\ disc.devices # <<>>

\* ---- the filter pipeline and the helpers, on the direct calls kept in ret
\* a well-formed pattern that matches the path
WellFormedMatch(pattern, path) == ~IsMalformed(pattern) /\ GlobMatch(pattern, path)

\* the path without its /dev/ prefix
Stripped(dev) == IF Len(dev) > 0 /\ dev[1] = "/dev/" THEN Tail(dev) ELSE dev

StrippedAll(list) == [i \in 1..Len(list) |-> Stripped(list[i])]

\* the list has an entry that is not blank
HasPattern(list) ==
    /\ ~list.isnil
    /\ \E i \in 1..Len(list.elems) : \E j \in 1..Len(list.elems[i]) : list.elems[i][j] # " "

\* some well-formed pattern of the list matches the path
ListMatches(list, path) ==
    \E i \in 1..Len(list.elems) : WellFormedMatch(list.elems[i], path)

ScanRootReturned == ret.op = "ScanRoot" /\ ret.pass = 1 /\ ~ret.result.err

\* C14: no device whose path matches an exclude pattern is in the list
\* ScanRootForDevicesWithDeps returns, whatever the raw list, the exclude list
\* and the include list.
C14_ExcludedNeverReturned ==
    ScanRootReturned =>
        \A i \in 1..Len(ret.result.devices) :
            ~ListMatches(ret.config.v.ExcludeDevices, PrefixedPath(ret.result.devices[i]))

\* C15 as stated: for an include list without a non-blank entry (absent, empty
\* or blank entries only) ApplyIncludeFilters returns the devices it was given,
\* in their order, each without the /dev/ prefix.
C15_NoPatternStrips ==
    (ret.op = "ApplyIncludeFilters" /\ ~HasPattern(ret.includes)) =>
        ret.result = StrippedAll(ret.devices)

\* C15 amended: an include list that is present and has no non-blank entry
\* gives the devices in their order without the /dev/ prefix; an absent (nil)
\* include list gives the devices unchanged, prefix included.
C15_NoPatternStripsUnlessAbsent ==
    (ret.op = "ApplyIncludeFilters" /\ ~HasPattern(ret.includes)) =>
        IF ret.includes.isnil
        THEN ret.result = ret.devices
        ELSE ret.result = StrippedAll(ret.devices)

\* C15 witness: an include list of two blank entries returned /dev/sdb,
\* /dev/sda as sdb, sda.
C15_Witness ==
    /\ ret.op = "ApplyIncludeFilters"
    /\ ret.includes = Slice(<<BlankEntry, BlankEntry>>)
    /\ ret.devices = <<SdB, SdA>>
    /\ ret.result = <<<<"sdb">>, <<"sda">>>>

\* the paths one include pattern contributes: what the host lists under the
\* trimmed pattern and a stat confirms, without the /dev/ prefix; nothing for
\* a blank or malformed pattern
RECURSIVE PerPattern(_, _)
PerPattern(patterns, files) ==
    IF patterns = <<>> THEN <<>>
    ELSE LET pattern == TrimRight(TrimLeft(patterns[1]))
             Confirmed(path) ==
                 /\ path \in files.listed
                 /\ WellFormedMatch(pattern, path)
                 /\ path \in files.statable
             here == IF pattern = <<>> THEN <<>>
                     ELSE StrippedAll(SelectSeq(HostPathOrder, Confirmed))
         IN  here \o PerPattern(Tail(patterns), files)

\* C16: with a non-blank include pattern the result does not depend on the
\* devices given: it is, pattern by pattern in order, every path FindDevices
\* resolves that StatDevice confirms, without the /dev/ prefix; a failing or
\* unmatched pattern adds nothing, and nothing is deduplicated.
C16_PatternsOverride ==
    (ret.op = "ApplyIncludeFilters" /\ HasPattern(ret.includes)) =>
        ret.result = PerPattern(ret.includes.elems, ret.files)

\* C16 witness: "/dev/*" then "/dev/sda" on a host whose /dev/sdb is a
\* dangling link, called with /dev/sdb alone: the result is sda, sda.
C16_Witness ==
    /\ ret.op = "ApplyIncludeFilters"
    /\ ret.includes = Slice(<<DevStar, SdA>>)
    /\ SdB \notin ret.files.statable
    /\ ret.devices = <<SdA, SdB>>
    /\ ret.result = <<<<"sda">>, <<"sda">>>>

HoldsOffloadPath(list) == \E i \in 1..Len(list) : PrefixedPath(list[i]) = NxGzipPath

\* C17 as stated: with offload enabled /dev/crypto/nx-gzip is appended to the
\* raw list before the filters: an exclude pattern that matches it removes it;
\* with empty include and exclude lists the result is the raw list followed by
\* /dev/crypto/nx-gzip, paths unchanged; with offload disabled it is not added.
C17_OffloadInjection ==
    (ScanRootReturned /\ ~HasPattern(ret.config.v.IncludeDevices)) =>
        LET ex == ret.config.v.ExcludeDevices
            inc == ret.config.v.IncludeDevices
            out == ret.result.devices
        IN  IF ret.nxGzipEnabled
            THEN /\ HoldsOffloadPath(out) <=> ~ListMatches(ex, NxGzipPath)
                 /\ HoldsOffloadPath(out) => PrefixedPath(out[Len(out)]) = NxGzipPath
                 /\ (Len(ex.elems) = 0 /\ Len(inc.elems) = 0) =>
                        out = Append(ret.block.devices, NxGzipPath)
            ELSE ~HoldsOffloadPath(out)

\* C17 amended: as above, with the paths unchanged when the include list is
\* absent (nil); with an include list that is present and empty the same list
\* is returned without the /dev/ prefixes.
C17_OffloadInjectionAbsentInclude ==
    (ScanRootReturned /\ ~HasPattern(ret.config.v.IncludeDevices)) =>
        LET ex == ret.config.v.ExcludeDevices
            inc == ret.config.v.IncludeDevices
            out == ret.result.devices
        IN  IF ret.nxGzipEnabled
            THEN /\ HoldsOffloadPath(out) <=> ~ListMatches(ex, NxGzipPath)
                 /\ HoldsOffloadPath(out) => PrefixedPath(out[Len(out)]) = NxGzipPath
                 /\ (Len(ex.elems) = 0 /\ Len(inc.elems) = 0) =>
                        IF inc.isnil
                        THEN out = Append(ret.block.devices, NxGzipPath)
                        ELSE out = StrippedAll(Append(ret.block.devices, NxGzipPath))
            ELSE ~HoldsOffloadPath(out)

\* C17 witness: offload enabled, no include list, an empty exclude list, raw
\* list /dev/sda, /dev/sdb: the result is /dev/sda, /dev/sdb, /dev/crypto/nx-gzip.
C17_Witness ==
    /\ ScanRootReturned
    /\ ret.nxGzipEnabled
    /\ ~ret.config.isnil
    /\ ret.config.v.IncludeDevices.isnil
    /\ ret.config.v.ExcludeDevices = Slice(<<>>)
    /\ ret.block.devices = <<SdA, SdB>>
    /\ ret.result.devices = <<SdA, SdB, NxGzipPath>>

\* C18: for exclude and include pattern sets that are disjoint, the exclude
\* pass followed by the include pass, applied to the list it produced, gives
\* that list again.
C18_FilterIdempotent ==
    (/\ ret.op = "ScanRoot"
     /\ ret.pass = 2
     /\ ~ret.result.err
     /\ SeqRange(ret.config.v.ExcludeDevices.elems)
            \cap SeqRange(ret.config.v.IncludeDevices.elems) = {}) =>
        ret.result.devices = ret.first

SevenPermissions ==
    {<<"r">>, <<"w">>, <<"m">>, <<"r", "w">>, <<"r", "m">>, <<"w", "m">>,
     <<"r", "w", "m">>}

\* C19: GetValidatedPermission gives rwm for an absent configuration, the
\* lower-cased configured string when that is one of r, w, m, rw, rm, wm, rwm,
\* and rw for every other value, the empty string included.
C19_PermissionResolution ==
    ret.op = "GetValidatedPermission" =>
        LET lowered == ToLower(ret.config.v.Permissions)
        IN  /\ ret.result \in SevenPermissions
            /\ ret.result = IF ret.config.isnil THEN <<"r", "w", "m">>
                            ELSE IF lowered \in SevenPermissions THEN lowered
                            ELSE <<"r", "w">>

\* C19 witness: the configured string RWM gave rwm.
C19_Witness ==
    /\ ret.op = "GetValidatedPermission"
    /\ ~ret.config.isnil
    /\ ret.config.v.Permissions = <<"R", "W", "M">>
    /\ ret.result = <<"r", "w", "m">>

\* C20: MatchesAny is true exactly when a well-formed pattern of the list
\* matches the path; a malformed pattern counts as no match and the patterns
\* after it are still tried; an empty list gives false.
C20_MatchesAnyWellFormed ==
    ret.op = "MatchesAny" =>
        (ret.result <=>
            \E i \in 1..Len(ret.patterns) : WellFormedMatch(ret.patterns[i], ret.dev))

\* C20 witness: the list "[", "/dev/sda" matched /dev/sda.
C20_Witness ==
    /\ ret.op = "MatchesAny"
    /\ ret.patterns = <<BadPattern, SdA>>
    /\ ret.dev = SdA
    /\ ret.result

\* ----------------------------------------------------------------- streams
\* the decimal string of a small index
DecimalString(i) == <<"0", "1", "2", "3", "4">>[i + 1]

\* stream s has a message go out in this step
Sends(s) == stream'[s].sent > stream[s].sent

\* C21: every message of a ListAndWatch stream, the initial one and each one
\* after a health update, has exactly one entry per device of the list served
\* at that moment; entry i (from 0) has the decimal string of i as its id, and
\* every entry reports Healthy.
C21_MessageShape ==
    [][\A s \in StreamIds :
          Sends(s) =>
             /\ Len(stream'[s].last) = Len(devs)
             /\ \A i \in 1..Len(devs) :
                   /\ stream'[s].last[i].ID = DecimalString(i - 1)
                   /\ stream'[s].last[i].Health = "Healthy"]_vars

\* a stream has sent its initial message and one after a health update, each
\* with the two devices of the host
C21_Witness ==
    \E s \in StreamIds :
        /\ stream[s].sent = 2
        /\ stream[s].signal = "health"
        /\ Len(stream[s].last) = 2
        /\ stream[s].last[2].ID = "1"

\* stream s enters ListAndWatch in this step
Begins(s) == stream[s].pc = "idle" /\ stream'[s].pc # "idle"

\* C22: a stream runs discovery at its start exactly when the in-memory list
\* is empty, never again afterwards, and has sent one message with the whole
\* list before it reacts to a stop, restart or health signal; when the seeding
\* discovery fails the stream ends with that error and nothing is sent.
\* (Under the default strategy a discovery fails exactly when its scan does.)
C22_StreamStart ==
    [][\A s \in StreamIds :
          /\ Begins(s) =>
                /\ stream'[s].scans = (IF Len(devs) = 0 THEN 1 ELSE 0)
                /\ (Len(devs) = 0 /\ ~stream'[s].scanOk) =>
                      /\ stream'[s].pc = "returned"
                      /\ stream'[s].err = "scan"
                /\ (Len(devs) = 0 /\ stream'[s].scanOk) =>
                      /\ stream'[s].pc = "send"
                      /\ devs' = blockDevs
                /\ stream'[s].sent = 0
          /\ stream[s].pc # "idle" => stream'[s].scans = stream[s].scans
          /\ (stream[s].sent = 0 /\ Sends(s)) =>
                /\ stream'[s].sent = 1
                /\ stream[s].signal = "none"
                /\ Len(stream'[s].last) = Len(devs)
          /\ stream'[s].signal # "none" => stream'[s].sent >= 1
          /\ stream'[s].err = "scan" =>
                stream'[s].sent = 0 /\ stream'[s].pc = "returned"]_vars

\* a stream that found the list empty ran one discovery, which found the two
\* disks, sent them and waits in its loop
C22_Witness ==
    \E s \in StreamIds :
        /\ stream[s].seeded
        /\ stream[s].scans = 1
        /\ stream[s].pc = "loop"
        /\ stream[s].sent = 1
        /\ Len(stream[s].last) = 2

\* stream s takes the stop case of its select in this step
ObservesStop(s) == stream[s].signal # "stop" /\ stream'[s].signal = "stop"

\* C23: once the stop channel is closed, every stream waiting in its signal
\* loop eventually returns, whether or not a restart or health signal ever
\* arrives (a process that has died of a panic has no streams left); the
\* stream that takes the stop case returns nil and sends no message from then
\* on.
C23_StopResponsive ==
    /\ \A s \in StreamIds :
          (stopClosed /\ stream[s].pc = "loop")
             ~> (stream[s].pc = "returned" \/ crashed)
    /\ [][\A s \in StreamIds :
             /\ ObservesStop(s) =>
                   /\ stopClosed
                   /\ stream[s].pc = "loop"
                   /\ stream'[s].pc = "returned"
                   /\ stream'[s].err = "none"
                   /\ stream'[s].sent = stream[s].sent
             /\ stream[s].signal = "stop" => stream'[s] = stream[s]]_vars

\* one stream ran the stop sequence after a restart signal, the other one
\* found the stop channel closed and returned
C23_Witness ==
    \E s, t \in StreamIds :
        /\ stream[t].signal = "restart"
        /\ stream[t].pc = "returned"
        /\ stopClosed
        /\ stream[s].signal = "stop"
        /\ stream[s].pc = "returned"
        /\ stream[s].err = "none"

\* stream s has taken a restart signal and has returned
ReturnedAfterRestart(s) ==
    stream[s].signal = "restart" /\ stream[s].pc = "returned"

\* C24: a stream that takes a restart signal runs the stop sequence and then
\* returns: it is not lost to a panic on the way, and when it has returned the
\* gRPC server is stopped, the stop channel is closed and the socket file is
\* removed; it returns nil and has sent no message since it took the signal.
C24_RestartRunsStop ==
    \A s \in StreamIds :
        /\ stream[s].signal = "restart" => ~crashed
        /\ ReturnedAfterRestart(s) =>
              /\ server = "nil"
              /\ stopClosed
              /\ ~sockFile
              /\ stream[s].err = "none"
              /\ stream[s].sent = stream[s].sentAtSignal

\* stream s receives a health update in this step
TakesHealthUpdate(s) ==
    healthCh'.blocked < healthCh.blocked /\ stream'[s] # stream[s]

\* C25: a stream that takes a health update marks the device it carries
\* healthy and sends the whole current list once more, exactly once; it stays
\* in its loop when the send succeeds and ends with the send error when it
\* fails.
C25_HealthUpdate ==
    [][\A s \in StreamIds :
          TakesHealthUpdate(s) =>
             /\ stream[s].pc = "loop"
             /\ healthCh'.blocked = healthCh.blocked - 1
             /\ stream'[s].d = "Healthy"
             /\ \/ /\ stream'[s].sent = stream[s].sent + 1
                   /\ Len(stream'[s].last) = Len(devs)
                   /\ stream'[s].pc = "loop"
                   /\ stream'[s].err = "none"
                \/ /\ stream'[s].sent = stream[s].sent
                   /\ stream'[s].pc = "returned"
                   /\ stream'[s].err = "send"
             /\ \A t \in StreamIds \ {s} : stream'[t] = stream[t]]_vars

\* a stream took a health update, sent the list again and is back in its loop
C25_Witness ==
    \E s \in StreamIds :
        /\ stream[s].d = "Healthy"
        /\ stream[s].pc = "loop"
        /\ stream[s].sent = 2
        /\ healthCh.blocked = 0
        /\ healthCh.started = 1

\* C26: a monitor is single-shot: it decides to signal only on a tick that
\* finds the kubelet's socket or the plugin's own socket missing, puts at most
\* one restart signal in the channel, and having done so neither checks nor
\* sends again; nothing else puts a signal in the channel.
C26_MonitorSingleShot ==
    [][/\ \A s \in StreamIds :
             /\ (monitor[s].found = "none" /\ monitor'[s].found # "none") =>
                   /\ monitor[s].pc = "watching"
                   /\ monitor'[s].found = "kubelet" => ~kubeletSock
                   /\ monitor'[s].found = "own" => ~sockFile
                   /\ monitor'[s].emitted = 0
             /\ monitor'[s].emitted > monitor[s].emitted =>
                   /\ monitor[s].found # "none"
                   /\ monitor[s].emitted = 0
                   /\ monitor'[s].emitted = 1
                   /\ monitor'[s].pc = "done"
             /\ monitor[s].pc = "done" => monitor'[s] = monitor[s]
       /\ restartCh' > restartCh =>
             \E s \in StreamIds : monitor'[s].emitted > monitor[s].emitted]_vars

\* a monitor found the plugin's own socket file missing, sent its one signal
\* and ended
C26_Witness ==
    \E s \in StreamIds :
        /\ monitor[s].found = "own"
        /\ monitor[s].emitted = 1
        /\ monitor[s].pc = "done"

\* C27: a sender of a health update does not block forever: a send in flight
\* while a stream is in its loop completes (or is dropped) even when the
\* stream exits on a stop or restart signal instead of receiving it.
C27_HealthSenderReleased ==
    (healthCh.blocked > 0 /\ \E s \in StreamIds : stream[s].pc = "loop")
        ~> (healthCh.blocked = 0 \/ crashed)

\* C28: when registration with the kubelet fails inside Serve, Serve returns
\* that error, and on its return the gRPC server is stopped and the socket
\* file is removed.
C28_RegistrationFailureClean ==
    [][(serveRet' = "register" /\ serveRet # "register") =>
          /\ server = "nil"
          /\ server' = "nil"
          /\ ~sockFile'
          /\ stopClosed'
          /\ \A s \in StreamIds : stream'[s].pc = "idle"]_vars

\* Serve has returned the registration error
C28_Witness ==
    /\ serveRet = "register"
    /\ server = "nil"
    /\ ~sockFile
    /\ Len(devs) = 2

\* ------------------------------------------------------------------ ledger
\* C29: no step lowers a ledger count: not a successful or failed Allocate,
\* not a discovery, not Serve with the stop it runs on a failed registration.
C29_LedgerNeverDecreases ==
    [][\A d \in LedgerKeys : DeviceUsage'[d] >= DeviceUsage[d]]_vars

\* a call has failed for want of capacity and the counts it met are all still
\* in the ledger
C29_Witness ==
    \E c \in Callers :
        /\ alloc[c].pc = "done"
        /\ alloc[c].err # "none"
        /\ \E d \in LedgerKeys : DeviceUsage[d] >= 1
        /\ grantsReturned >= 1

\* ------------------------------------------------------------ configuration
\* the file at the configuration path gives no usable document
ConfigLoadTroubled == cfgFile.kind \in {"missing", "dir", "unreadable", "malformed"}

\* C30: whatever the load of the configuration comes to (file missing, a
\* directory, unreadable, malformed), Start, GetDiscoveredDevices and Allocate
\* do not panic: no call is cut off by a panic and the process lives.
C30_ConfigLoadNeverPanics ==
    ConfigLoadTroubled =>
        /\ ~crashed
        /\ \A c \in Callers : alloc[c].pc # "panic"

\* --------------------------------------------------------- the other calls
\* GetDevicePluginOptions or PreStartContainer returns in this step
OptionsStep ==
    /\ ret' # ret
    /\ ret'.op \in {"GetDevicePluginOptions", "PreStartContainer"}

\* C31: GetDevicePluginOptions always succeeds with preStartRequired = false
\* and getPreferredAllocationAvailable = false, PreStartContainer always
\* succeeds with an empty response, and neither changes the ledger, the
\* discovery cache, the served list or a signal channel.
C31_OptionsStatic ==
    [][OptionsStep =>
          /\ ret'.err = "none"
          /\ ret'.op = "GetDevicePluginOptions" =>
                /\ ret'.resp.PreStartRequired = FALSE
                /\ ret'.resp.GetPreferredAllocationAvailable = FALSE
          /\ ret'.op = "PreStartContainer" => ret'.resp.set = {}
          /\ UNCHANGED <<DeviceUsage, Cache, devs, stopClosed, restartCh, healthCh>>]_vars

\* both calls have been made on a plugin whose ledger holds a count
C31_Witness ==
    /\ ret.op = "PreStartContainer"
    /\ \E d \in LedgerKeys : DeviceUsage[d] >= 1
    /\ Len(devs) >= 1

\* caller c has decided for a container of its batch and not yet for the
\* last one, and does not move in this step
MidBatch(c) ==
    /\ alloc[c].pc = "loop"
    /\ alloc[c].i >= 1
    /\ alloc'[c] = alloc[c]

\* C32: a multi-container batch is one critical section on the ledger: between
\* the decision for the first container of a call and the decision for its
\* last one no other call's increment takes effect.
C32_BatchCriticalSection ==
    [][\A c \in Callers : MidBatch(c) => DeviceUsage' = DeviceUsage]_vars

\* the monitors that have been started and have not returned
RunningMonitors == {s \in StreamIds : monitor[s].pc \in {"watching", "sending"}}

\* C33: whatever the number of ListAndWatch calls made on the plugin, at most
\* one MonitorSocketHealth task is running.
C33_OneMonitor == Cardinality(RunningMonitors) <= 1

\* ---------------------------------------------------------- the cache lock
\* caller c's call has returned the non-empty list of its own successful scan
ScannedFresh(c) ==
    /\ getting[c].pc = "done"
    /\ getting[c].scanned
    /\ getting[c].scanOk
    /\ Len(getting[c].devices) > 0

\* caller c's call returns in this step without having invoked the scanner
ReturnsCached(c) ==
    /\ getting'[c] # getting[c]
    /\ getting'[c].pc = "done"
    /\ ~getting'[c].scanned

\* C34: the cache lock covers the read, the decision, the scan and the write
\* of the time strategy: two calls are never both between their decision and
\* their write, two calls that each ran a successful scan with a non-empty
\* list are a whole interval apart (one scan per interval), and a call that
\* does not scan returns the list the cache holds, which it leaves as it is.
C34_OneScanPerInterval ==
    /\ [](\A c, e \in Callers :
            c # e =>
               /\ ~(getting[c].pc = "scanning" /\ getting[e].pc = "scanning")
               /\ (ScannedFresh(c) /\ ScannedFresh(e) /\ getting[c].t >= getting[e].t) =>
                     getting[c].t - getting[e].t >= ScanIntervalOf(Config))
    /\ [][\A c \in Callers :
             ReturnsCached(c) =>
                /\ Len(Cache.Devices) > 0
                /\ getting'[c].devices = Cache.Devices
                /\ getting'[c].err = "none"
                /\ Cache' = Cache]_vars

\* two calls came at the same instant on an empty cache: one scanned and
\* wrote the cache, the other returned the same list from it
C34_Witness ==
    \E c, e \in Callers :
        /\ ScannedFresh(c)
        /\ getting[e].pc = "done"
        /\ ~getting[e].scanned
        /\ getting[e].t = getting[c].t
        /\ getting[e].devices = getting[c].devices
        /\ Cache.LastScanTime = getting[c].t
        /\ hostChanges = 1

\* C35: from the empty cache of New on, the cached list and lastScanTime are
\* written together, by one successful scan, with the list it found and the
\* instant it read; a non-empty cached list has a non-zero lastScanTime, and
\* lastScanTime never decreases.
C35_CachePair ==
    /\ [](Len(Cache.Devices) > 0 => Cache.LastScanTime # 0)
    /\ [][/\ Cache' # Cache =>
                /\ lastScan'.done
                /\ lastScan'.ok
                /\ lastScan'.t = now
                /\ Cache'.Devices = lastScan'.devices
                /\ Cache'.LastScanTime = lastScan'.t
          /\ Cache'.LastScanTime >= Cache.LastScanTime]_vars

\* the cache holds the list and the instant of a second scan, made after the
\* window of the first one had passed
C35_Witness ==
    /\ Len(Cache.Devices) > 0
    /\ Cache.LastScanTime > StartTime
    /\ lastScan.ok
    /\ lastScan.t = Cache.LastScanTime

\* a direct discovery call whose scan failed returns in this step
FailedScanStep ==
    /\ disc' # disc
    /\ disc'.scanned
    /\ ~disc'.scanOk

\* C36: under the time strategy a fresh scan that fails leaves the cached list
\* and lastScanTime as they were, whether the call returns the fallback list
\* or the error, so the window is still expired for the next call.
C36_FailedScanKeepsCache ==
    [][(FailedScanStep /\ StrategyOf(Config) = "time") =>
          /\ Cache' = Cache
          /\ Len(Cache.Devices) > 0 =>
                disc'.err = "none" /\ disc'.devices = Cache.Devices
          /\ Len(Cache.Devices) = 0 => disc'.err = "scan"
          /\ ~UseCached(Cache', now', ScanIntervalOf(Config'))]_vars

\* a scan failed after the window had passed and the call returned the list
\* the cache still holds, with the old lastScanTime
C36_Witness ==
    /\ disc.scanned
    /\ ~disc.scanOk
    /\ disc.err = "none"
    /\ Len(disc.devices) > 0
    /\ Cache.Devices = disc.devices
    /\ Cache.LastScanTime < now


\* the count the ledger holds for the k-th device of the list the host gives
CountOf(k) == DeviceUsage[PrefixedPath(FreshScan[k])]

\* C37: while the host's device list d1..dn and the limit L stay as they are,
\* from the empty ledger on and under any interleaving of Allocate calls there
\* is an index k with every device before dk at exactly L and every device
\* after dk at 0.
C37_PrefixFull ==
    hostChanges = 0 =>
        \E k \in 1..(Len(FreshScan) + 1) :
            /\ \A j \in 1..(k - 1) : CountOf(j) = ClaimLimit
            /\ \A j \in (k + 1)..Len(FreshScan) : CountOf(j) = 0

\* two calls are under way on an unchanged host with two devices and L = 2:
\* the first device is full and the second is in use
C37_Witness ==
    /\ hostChanges = 0
    /\ Len(FreshScan) = 2
    /\ ClaimLimit = 2
    /\ CountOf(1) = 2
    /\ CountOf(2) = 1
    /\ \A c \in Callers : alloc[c].pc # "idle"
    /\ \E c \in Callers : alloc[c].pc = "loop"


\* C38: a container request that is granted nothing has skipped as many
\* devices as were discovered, so the call fails with the upper-limit error
\* and never with the not-enough one; with an empty discovered list the first
\* request of a non-empty batch fails that way and the ledger stays as it was.
C38_OnlyUpperLimitError ==
    /\ [](\A c \in Callers : alloc[c].err # "notenough")
    /\ [][\A c \in Callers :
             /\ FailingStep(c) =>
                   /\ alloc'[c].err = "upperlimit"
                   /\ \A k \in 1..Len(alloc[c].devices) :
                          DeviceUsage[PrefixedPath(alloc[c].devices[k])]
                              >= alloc[c].upperLimit
                   /\ DeviceUsage' = DeviceUsage
             /\ (ContainerStep(c) /\ alloc[c].devices = <<>>) =>
                   /\ FailingStep(c)
                   /\ alloc'[c].i = 0]_vars

\* a non-empty batch has failed at container 0 with the upper-limit error
\* while no device is in use: the list the call worked on was empty
C38_Witness ==
    \E c \in Callers :
        /\ alloc[c].pc = "done"
        /\ alloc[c].n > 0
        /\ alloc[c].i = 0
        /\ alloc[c].err = "upperlimit"
        /\ \A d \in LedgerKeys : DeviceUsage[d] = 0


\* the streams whose Stop has called p.server.Stop() and has not yet closed
\* the stop channel
StoppedServer == {s \in StreamIds : stream[s].pc = "stopClose"}

\* the Stop of stream s finds no server in this step
StopWithoutServer(s) ==
    stream[s].pc = "stopCheck" /\ stream'[s] # stream[s] /\ server = "nil"

\* C39: over any interleaving of Stop calls the server is stopped at most
\* once and the stop channel is closed at most once (no Stop reaches
\* close(p.stop) on a closed channel, none is lost to a panic), and a Stop
\* that finds no server returns and changes nothing.
C39_StopRunsOnce ==
    /\ [](/\ Cardinality(StoppedServer) <= 1
          /\ \A s \in StoppedServer : ~stopClosed
          /\ \A s \in StreamIds :
                 stream[s].pc \in {"stopServer", "stopClose"} => ~crashed)
    /\ [][\A s \in StreamIds :
             StopWithoutServer(s) =>
                 /\ stream'[s].pc = "returned"
                 /\ UNCHANGED pluginVars]_vars


\* C40: every monitor that has found a socket missing terminates: its send on
\* the restart channel goes through, whether or not a stream is left to take
\* the signal (a process lost to a panic ends its monitors too).
C40_MonitorTerminates ==
    \A s \in StreamIds :
        monitor[s].pc = "sending" ~> (monitor[s].pc = "done" \/ crashed)

====
